---- MODULE Spec2Model ----
(***************************************************************************)
(* Quote resolution, session / relative-volume estimation and universe     *)
(* scanning of the Chart Assassin Discord bot (src/index.js, revision      *)
(* v3.13, lines 271-1204, and the sibling revisions under src/unnamed).    *)
(*                                                                         *)
(* Units.  Prices are integers counted in half-cents (10.00 USD = 2000),   *)
(* so that the NBBO midpoint (bid + ask) / 2 of two cent-quoted prices is  *)
(* exact.  Volumes are integers counted in thousands of shares.  Ratios      *)
(* (percent change, relative volume, score) are exact rationals            *)
(* <<num, den>> in lowest terms with den > 0; the IEEE rounding of the     *)
(* JavaScript doubles is not modelled.                                     *)
(*                                                                         *)
(* JavaScript's null / undefined / NaN are the empty sequence <<>>; a      *)
(* present value v is <<v>>.                                               *)
(***************************************************************************)
EXTENDS Integers, Sequences, FiniteSets, TLC

VARIABLES
    dow, mins, session,                 \* wall clock read by getSession and its result
    rvRaw, rvSession, rvNow, rvol, rvOp, \* estimateRVOLFromQuote: inputs, clock, result
    POLY, DISC_BPS,                     \* process.env.POLYGON_KEY set, DISCREPANCY_BPS
    feed,                               \* which upstream responses are enumerated
    gqPc, gqTicker, gqY, gqPrice, gqP,  \* one getQuote call: position and locals
    gqTries, gqResult,                  \* retries left, value returned or thrown
    gqRaw,                              \* the entry point's symbol being served
    gqSeen, gqAttempts,                 \* responses received; attempts of the request
    gqId, gqParked,                     \* the invocation running; those suspended at an await
    netCalls,                           \* provider requests started for the entry point
    cmdName, cmdQueue, cmdReply,        \* the entry point running, symbols left, outcome
    cmdOpts, cmdRev,                    \* options of a schedule command; handler revision
    SCHEDULES, JOBS, NEXT_ID,           \* scheduler storage and runtime
    schedulesFile, started,             \* contents of schedules.json; cron jobs running
    assigned,                           \* history: ids given to schedules so far
    DEFAULT_CHANNEL_ID,                 \* process.env.DISCORD_CHANNEL_ID
    scanPc, scanKind, scanList, scanN,  \* one scan: position, variant, universe, n
    scanIdx, scanOut, scanSeen,         \* loop index, rows pushed, quotes obtained
    scanResult,                         \* the list returned
    nmRev, nmPc, nmIn, nmOnce, nmTwice, \* norm applied once and twice to a string
    scRev, scOp, scCand, scScore,       \* the scan score of one pushed row
    flRev, flPc, flQuote, flRow         \* one pass of the low-cap scan's filters

vSession == <<dow, mins, session>>
vRvol    == <<rvRaw, rvSession, rvNow, rvol, rvOp>>
vEnv     == <<POLY, DISC_BPS, feed>>
vCall    == <<gqPc, gqTicker, gqY, gqPrice, gqP, gqTries, gqResult, gqRaw,
              gqSeen, gqAttempts>>
vQuote   == <<vCall, netCalls>>
vConc    == <<gqId, gqParked>>
vCmd     == <<cmdName, cmdQueue, cmdReply, cmdOpts, cmdRev>>
vSched   == <<SCHEDULES, JOBS, NEXT_ID, schedulesFile, started, assigned,
              DEFAULT_CHANNEL_ID>>
vScan    == <<scanPc, scanKind, scanList, scanN, scanIdx, scanOut, scanSeen, scanResult>>
vNorm    == <<nmRev, nmPc, nmIn, nmOnce, nmTwice>>
vScore   == <<scRev, scOp, scCand, scScore>>
vFilter  == <<flRev, flPc, flQuote, flRow>>
vPure    == <<vNorm, vScore, vFilter>>
vars     == <<vSession, vRvol, vEnv, vQuote, vConc, vCmd, vSched, vScan, vPure>>

----------------------------------------------------------------------------
(* JavaScript values                                                       *)

None == <<>>
Some(v) == <<v>>
IsNone(x) == x = <<>>
Val(x) == x[1]

\* a ?? b
Coalesce(a, b) == IF IsNone(a) THEN b ELSE a

Max(a, b) == IF a >= b THEN a ELSE b
Min(a, b) == IF a <= b THEN a ELSE b
Abs(a) == IF a < 0 THEN 0 - a ELSE a

RECURSIVE GCD(_, _)
GCD(a, b) == IF b = 0 THEN a ELSE GCD(b, a % b)

\* the rational n / d (d > 0) in lowest terms
Rat(n, d) == LET g == GCD(Abs(n), d) IN <<n \div g, d \div g>>
RatLeq(a, b) == a[1] * b[2] <= b[1] * a[2]
RatLt(a, b) == a[1] * b[2] < b[1] * a[2]
RatAdd(a, b) == Rat(a[1] * b[2] + b[1] * a[2], a[2] * b[2])

\* n / d as JavaScript computes it for d >= 0: <<1, 0>> is Infinity,
\* <<0 - 1, 0>> is -Infinity and <<0, 0>> is NaN
Div(n, d) ==
    IF d = 0 THEN <<IF n > 0 THEN 1 ELSE IF n < 0 THEN 0 - 1 ELSE 0, 0>>
    ELSE Rat(n, d)
NaN == <<0, 0>>
IsFinite(r) == r[2] # 0

\* a || b on optional numbers: undefined, NaN and 0 are falsy
OrElse(a, b) == IF IsNone(a) \/ Val(a) = 0 THEN b ELSE a

----------------------------------------------------------------------------
(* Market session helpers: src/index.js 331-342                            *)

PRE_OPEN == 240
RTH_OPEN == 570
RTH_CLOSE == 960
POST_CLOSE == 1200
RTH_MINUTES == 390

\* now.day() and now.hour() * 60 + now.minute()
Days == 0 .. 6
MinutesOfDay == 0 .. (24 * 60 - 1)
Sessions == {"PRE", "RTH", "POST", "OFF"}

getSession_OffByOne(d, m) ==
    IF d = 0 \/ d = 6 THEN "OFF"
    ELSE IF m >= PRE_OPEN /\ m < RTH_OPEN THEN "PRE"
    ELSE IF m > RTH_OPEN /\ m < RTH_CLOSE THEN "RTH"
    ELSE IF m >= RTH_CLOSE /\ m < POST_CLOSE THEN "POST"
    ELSE "OFF"

getSession(d, m) ==
    IF d = 0 \/ d = 6 THEN "OFF"
    ELSE IF m >= PRE_OPEN /\ m < RTH_OPEN THEN "PRE"
    ELSE IF m >= RTH_OPEN /\ m < RTH_CLOSE THEN "RTH"
    ELSE IF m >= RTH_CLOSE /\ m < POST_CLOSE THEN "POST"
    ELSE "OFF"

minutesSinceOpenNY(m) == Max(0, m - RTH_OPEN)

clamp(x, a, b) == Max(a, Min(b, x))

----------------------------------------------------------------------------
(* Relative volume: src/index.js 431-444                                   *)

\* mins / 390 and the clamp limits 0.05 and 1 are all counted in units of
\* 1 / FracScale, the smallest scale in which 0.05 is a whole number
FracScale == 2 * RTH_MINUTES
FracFloor == FracScale \div 20
FracCeil  == FracScale

\* raw?.field of an optional record
Field(raw, f) ==
    IF IsNone(raw) \/ f \notin DOMAIN Val(raw) THEN None ELSE Val(raw)[f]

rawVol(raw) == Val(Coalesce(Field(raw, "regularMarketVolume"), Some(0)))
rawAvg(raw) ==
    Val(Coalesce(Coalesce(Field(raw, "averageDailyVolume3Month"),
                          Field(raw, "averageVolume")), Some(0)))

elapsedFrac(nowM) == clamp(2 * minutesSinceOpenNY(nowM), FracFloor, FracCeil)

estimateRVOL_NoFloor(raw, sess, nowM) ==
    LET vol == rawVol(raw)
        avg == rawAvg(raw)
    IN  IF avg = 0 \/ avg <= 0 THEN None
        ELSE IF sess = "RTH"
             THEN LET frac == clamp(2 * minutesSinceOpenNY(nowM), 0, FracCeil)
                  IN  IF avg * frac <= 0 THEN None
                      ELSE Rat(vol * FracScale, avg * frac)
             ELSE Rat(vol, avg)

estimateRVOL_TimesFrac(raw, sess, nowM) ==
    LET vol == rawVol(raw)
        avg == rawAvg(raw)
    IN  IF avg = 0 \/ avg <= 0 THEN None
        ELSE IF sess = "RTH"
             THEN Rat(vol * elapsedFrac(nowM), avg * FracScale)
             ELSE Rat(vol, avg)

estimateRVOL_ZeroForUnknown(raw, sess, nowM) ==
    LET vol == rawVol(raw)
        avg == rawAvg(raw)
    IN  IF avg = 0 \/ avg <= 0 THEN Rat(0, 1)
        ELSE IF sess = "RTH"
             THEN Rat(vol * FracScale, avg * elapsedFrac(nowM))
             ELSE Rat(vol, avg)

estimateRVOLFromQuote(raw, sess, nowM) ==
    LET vol == rawVol(raw)
        avg == rawAvg(raw)
    IN  IF avg = 0 \/ avg <= 0 THEN None
        ELSE IF sess = "RTH"
             THEN LET frac == elapsedFrac(nowM)
                      \* expectedSoFar = avg * frac / FracScale
                  IN  IF avg * frac <= 0 THEN None
                      ELSE Rat(vol * FracScale, avg * frac)
             ELSE Rat(vol, avg)

----------------------------------------------------------------------------
(* Strings and symbols: src/index.js 320-328.  A string is a sequence of   *)
(* one-character strings.                                                  *)

UpperSeq ==
    <<"A", "B", "C", "D", "E", "F", "G", "H", "I", "J", "K", "L", "M",
      "N", "O", "P", "Q", "R", "S", "T", "U", "V", "W", "X", "Y", "Z">>
LowerSeq ==
    <<"a", "b", "c", "d", "e", "f", "g", "h", "i", "j", "k", "l", "m",
      "n", "o", "p", "q", "r", "s", "t", "u", "v", "w", "x", "y", "z">>
DigitChars == {"0", "1", "2", "3", "4", "5", "6", "7", "8", "9"}

Range(f) == {f[i] : i \in DOMAIN f}
IsUpperLetter(c) == c \in Range(UpperSeq)
IsSpace(c) == c \in {" ", "\t", "\n"}
\* the character class [A-Z0-9.\-]
IsTickerChar(c) == IsUpperLetter(c) \/ c \in DigitChars \/ c \in {".", "-"}

toUpperChar(c) ==
    IF c \in Range(LowerSeq)
    THEN UpperSeq[CHOOSE i \in DOMAIN LowerSeq : LowerSeq[i] = c]
    ELSE c
toUpperCase(s) == [i \in 1 .. Len(s) |-> toUpperChar(s[i])]

RECURSIVE trimStart(_)
trimStart(s) == IF s # <<>> /\ IsSpace(Head(s)) THEN trimStart(Tail(s)) ELSE s
RECURSIVE trimEnd(_)
trimEnd(s) ==
    IF s # <<>> /\ IsSpace(s[Len(s)]) THEN trimEnd(SubSeq(s, 1, Len(s) - 1)) ELSE s
trim(s) == trimEnd(trimStart(s))

\* safeStr(v): an absent option (null) is the empty string
safeStr(v) == IF IsNone(v) THEN <<>> ELSE Val(v)
clean(v) == trim(safeStr(v))

BRK_B_DOT  == <<"B", "R", "K", ".", "B">>
BRK_B_DASH == <<"B", "R", "K", "-", "B">>
BRK_A_DOT  == <<"B", "R", "K", ".", "A">>
BRK_A_DASH == <<"B", "R", "K", "-", "A">>
USD_SUFFIX == <<"-", "U", "S", "D">>

\* norm of an optional string; Norm of a string
norm(v) ==
    LET x == toUpperCase(clean(v))
    IN  IF x = BRK_B_DOT THEN BRK_B_DASH
        ELSE IF x = BRK_A_DOT THEN BRK_A_DASH
        ELSE SelectSeq(x, LAMBDA c : ~IsSpace(c))

TICKER_TAIL_MAX == 10

\* /^[A-Z][A-Z0-9.\-]{0,10}(?:-USD)?$/ on a string
MatchesTickerRe(x) ==
    /\ Len(x) >= 1
    /\ IsUpperLetter(x[1])
    /\ \E k \in 0 .. TICKER_TAIL_MAX :
          /\ \A i \in 2 .. (k + 1) : i <= Len(x) /\ IsTickerChar(x[i])
          /\ \/ Len(x) = k + 1
             \/ /\ Len(x) = k + 1 + Len(USD_SUFFIX)
                /\ SubSeq(x, k + 2, Len(x)) = USD_SUFFIX

isTicker_OfNorm(v) == MatchesTickerRe(norm(v))

isTicker(v) == MatchesTickerRe(toUpperCase(clean(v)))

\* src/unnamed/part_000 62-63: norm without the class-share map, and an
\* isTicker that tests norm(s) against /^[A-Z][A-Z0-9.\-]{0,10}$/
norm_part000(v) == SelectSeq(toUpperCase(clean(v)), LAMBDA c : ~IsSpace(c))
isTicker_part000(v) ==
    LET x == norm_part000(v)
    IN  /\ Len(x) >= 1 /\ Len(x) <= TICKER_TAIL_MAX + 1
        /\ IsUpperLetter(x[1])
        /\ \A i \in 2 .. Len(x) : IsTickerChar(x[i])

\* the revisions of the normalizer: index.js 323-328 (the same function is
\* at index.js 42, part_001 45 and part_002 36) and part_000 62
NormRevisions == {"index.js", "part_000"}
normOf(rev, v) == IF rev = "index.js" THEN norm(v) ELSE norm_part000(v)
isTickerOf(rev, v) == IF rev = "index.js" THEN isTicker(v) ELSE isTicker_part000(v)

----------------------------------------------------------------------------
(* Specification SpecNorm: norm applied once and again to an input string  *)

MaxNormLen == 3
NormAlphabet == {"a", "B", "1", ".", "-", " "}

\* every string over the alphabet up to MaxNormLen, and the symbols the
\* normalizer treats specially, also with blanks inside and around
NormInputs ==
    UNION {[1 .. n -> NormAlphabet] : n \in 0 .. MaxNormLen} \cup
    {<<"b", "r", "k", ".", "b">>, BRK_A_DOT, BRK_B_DASH,
     <<" ", "b", "r", "k", ".", "b", " ">>,
     <<"b", "r", "k", ".", " ", "b">>,
     <<"b", "t", "c", "-", "u", "s", "d">>,
     <<"B", "T", "C", "-", "U", "S", "D">>,
     <<"b", "r", "k", ".", "b", "-", "u", "s", "d">>}

NormIdle ==
    /\ nmRev = "index.js" /\ nmPc = "idle" /\ nmIn = <<>>
    /\ nmOnce = <<>> /\ nmTwice = <<>>


NormInit ==
    /\ nmRev \in NormRevisions /\ nmPc = "in" /\ nmIn \in NormInputs
    /\ nmOnce = <<>> /\ nmTwice = <<>>

\* const t = norm(i.options.getString('ticker'))   (index.js 986)
ApplyNorm ==
    /\ nmPc = "in"
    /\ nmOnce' = normOf(nmRev, Some(nmIn))
    /\ nmPc' = "once"
    /\ UNCHANGED <<nmRev, nmIn, nmTwice, vSession, vRvol, vEnv, vConc, vQuote, vCmd,
                   vSched, vScan, vScore, vFilter>>

\* norm(ticker) inside yahooQuoteFull, on the symbol the caller normalized
\* (index.js 346)
ApplyNormAgain ==
    /\ nmPc = "once"
    /\ nmTwice' = normOf(nmRev, Some(nmOnce))
    /\ nmPc' = "twice"
    /\ UNCHANGED <<nmRev, nmIn, nmOnce, vSession, vRvol, vEnv, vConc, vQuote, vCmd,
                   vSched, vScan, vScore, vFilter>>

----------------------------------------------------------------------------
(* Specification SpecSession: the wall clock and getSession()              *)

SessionIdle == dow = 1 /\ mins = 0 /\ session = "none"

SessionInit == dow \in Days /\ mins \in MinutesOfDay /\ session = "none"

\* getSession() with now = the New York wall clock (index.js 331, 418, 1061)
CallGetSession ==
    /\ session' = getSession(dow, mins)
    /\ UNCHANGED <<dow, mins, vRvol, vEnv, vConc, vPure, vScan, vQuote, vCmd, vSched>>

\* a minute passes
ClockTick ==
    /\ mins' = (mins + 1) % (24 * 60)
    /\ dow' = IF mins' = 0 THEN (dow + 1) % 7 ELSE dow
    /\ session' = "none"
    /\ UNCHANGED <<vRvol, vEnv, vConc, vPure, vScan, vQuote, vCmd, vSched>>

----------------------------------------------------------------------------
(* Specification SpecRvol: estimateRVOLFromQuote(q.raw, q.session)         *)

\* minutes that may pass between getQuote's getSession() and the estimate
\* (buildCompactBlock awaits the history request in between, index.js 843-869)
MaxAwaitMinutes == 2

VolSamples == {0, 200, 300}
AvgSamples == {0 - 150, 0, 1000}
AltAvgSamples == {500}

\* every minute of the regular session and of the await window around it,
\* and the boundary minutes of the other sessions
ClockSamples ==
    ((RTH_OPEN - 1) .. (RTH_CLOSE + MaxAwaitMinutes))
        \cup {0, PRE_OPEN - 1, PRE_OPEN, POST_CLOSE - 1, POST_CLOSE, 24 * 60 - 1}

Opt(S) == {None} \cup {Some(v) : v \in S}

RawQuotes ==
    {None} \cup
    {Some([regularMarketVolume |-> v, averageDailyVolume3Month |-> a, averageVolume |-> b]) :
        v \in Opt(VolSamples), a \in Opt(AvgSamples), b \in Opt(AltAvgSamples)}

\* sess was returned by getSession() at most MaxAwaitMinutes before minute nowM
SessionAtMost(sess, nowM) ==
    sess \in {getSession(d, (nowM - k) % (24 * 60)) : d \in Days, k \in 0 .. MaxAwaitMinutes}

RvolIdle ==
    /\ rvRaw = None /\ rvSession = "OFF" /\ rvNow = 0 /\ rvol = None /\ rvOp = "idle"

RvolInit ==
    /\ rvRaw \in RawQuotes
    /\ rvSession \in Sessions
    /\ rvNow \in ClockSamples
    /\ SessionAtMost(rvSession, rvNow)
    /\ rvol = None
    /\ rvOp = "input"

\* ctx.rvol = estimateRVOLFromQuote(q.raw, q.session)   (index.js 869)
Estimate ==
    /\ rvOp = "input"
    /\ rvol' = estimateRVOLFromQuote(rvRaw, rvSession, rvNow)
    /\ rvOp' = "estimate"
    /\ UNCHANGED <<rvRaw, rvSession, rvNow, vSession, vEnv, vConc, vPure, vScan, vQuote, vCmd, vSched>>

\* the same quote with a larger traded volume, estimated at the same minute
EstimateMoreVolume ==
    /\ rvOp # "input"
    /\ ~IsNone(rvRaw)
    /\ \E v \in VolSamples :
          /\ v > rawVol(rvRaw)
          /\ rvRaw' = Some([Val(rvRaw) EXCEPT !.regularMarketVolume = Some(v)])
    /\ rvol' = estimateRVOLFromQuote(rvRaw', rvSession, rvNow)
    /\ rvOp' = "volume"
    /\ UNCHANGED <<rvSession, rvNow, vSession, vEnv, vConc, vPure, vScan, vQuote, vCmd, vSched>>

\* the same quote and session, estimated later in the day
EstimateLater ==
    /\ rvOp # "input"
    /\ \E k \in {1, 15} :
          /\ rvNow + k \in ClockSamples
          /\ SessionAtMost(rvSession, rvNow + k)
          /\ rvNow' = rvNow + k
    /\ rvol' = estimateRVOLFromQuote(rvRaw, rvSession, rvNow')
    /\ rvOp' = "later"
    /\ UNCHANGED <<rvRaw, rvSession, vSession, vEnv, vConc, vPure, vScan, vQuote, vCmd, vSched>>

----------------------------------------------------------------------------
(* Quotes: src/index.js 345-428                                            *)

\* retry(fn, tries = 2)   (index.js 381)
RETRY_TRIES == 2

QuoteTypes == {"EQUITY", "ETF", "CRYPTOCURRENCY"}

\* a settled promise: rejected, or fulfilled with an optional body
Rejected == [ok |-> FALSE]
Fulfilled(b) == [ok |-> TRUE, body |-> b]

\* q.regularMarketPrice ?? q.postMarketPrice ?? q.preMarketPrice
firstPrice(q) ==
    Coalesce(Coalesce(q.regularMarketPrice, q.postMarketPrice), q.preMarketPrice)

\* a whole percent as a ratio
Pct(x) == Rat(x, 1)

\* the try block of yahooQuoteFull on a fulfilled yahooFinance.quote(t):
\* None when it throws 'No price on quote'
yahooFromQuote(body) ==
    IF IsNone(body) \/ IsNone(firstPrice(Val(body))) THEN None
    ELSE LET q == Val(body)
         IN  Some([price  |-> firstPrice(q),
                   chg    |-> Pct(Val(Coalesce(q.regularMarketChangePercent, Some(0)))),
                   type   |-> IF IsNone(q.quoteType) THEN "EQUITY" ELSE Val(q.quoteType),
                   source |-> "Yahoo",
                   raw    |-> body])

\* the catch block of yahooQuoteFull on a fulfilled quoteSummary: None when
\* it throws 'No price on quoteSummary'; Number(undefined) is NaN, a price
\* of None
yahooFromSummary(body) ==
    IF IsNone(body) \/ IsNone(Val(body).price) THEN None
    ELSE LET p == Val(Val(body).price)
             s == Val(body).summaryDetail
         IN  Some([price  |-> firstPrice(p),
                   chg    |-> Pct(Val(Coalesce(Coalesce(Coalesce(
                                  p.regularMarketChangePercent,
                                  p.postMarketChangePercent),
                                  p.preMarketChangePercent), Some(0)))),
                   type   |-> IF IsNone(p.quoteType) THEN "EQUITY" ELSE Val(p.quoteType),
                   source |-> "Yahoo (fallback)",
                   raw    |-> Some([regularMarketVolume |-> p.regularMarketVolume,
                                    averageDailyVolume3Month |->
                                        OrElse(Field(s, "averageVolume"),
                                               Field(s, "averageVolume3Month"))])])

\* (nb.bid.price + nb.ask.price) / 2 of r.data?.results, prices in
\* half-cents of cent-quoted sides; None when polygonQuote returns null
\* there: no results, a side without a number (NaN or a TypeError caught by
\* the outer catch) or a midpoint of 0
polyMid(nb) ==
    IF IsNone(nb) \/ IsNone(Val(nb).bid) \/ IsNone(Val(nb).ask) THEN None
    ELSE LET m == (Val(Val(nb).bid) + Val(Val(nb).ask)) \div 2
         IN  IF m = 0 THEN None ELSE Some(m)

\* prev ? ((price - prev.c) / prev.c) * 100 : 0 of r.data?.results?.[0];
\* a missing prev.c gives NaN
polyChg(price, prev) ==
    IF IsNone(prev) THEN Pct(0)
    ELSE IF IsNone(Val(prev).c) THEN NaN
    ELSE Div((price - Val(Val(prev).c)) * 100, Val(Val(prev).c))

discrepancyFlag_AtLeast(pPrice, yPrice, bps) ==
    IF IsNone(yPrice) THEN FALSE
    ELSE IF Val(yPrice) = 0 THEN TRUE
    ELSE Abs(pPrice - Val(yPrice)) * 10000 >= bps * Abs(Val(yPrice))

\* diff > DISC_BPS / 100 with diff = Math.abs((p.price - y.price) / y.price) * 100
\* (index.js 411-412): NaN for a NaN y.price, Infinity for y.price = 0
discrepancyFlag(pPrice, yPrice, bps) ==
    IF IsNone(yPrice) THEN FALSE
    ELSE IF Val(yPrice) = 0 THEN TRUE
    ELSE Abs(pPrice - Val(yPrice)) * 10000 > bps * Abs(Val(yPrice))

\* Number(process.env.DISCREPANCY_BPS ?? 50)   (index.js 302)
DEFAULT_DISC_BPS == 50
DiscBpsSamples == {DEFAULT_DISC_BPS, 200}

\* prices in half-cents: 10.00, 10.05 and 10.20 USD; 0 is a reported zero
YahooPriceSamples == {0, 2000, 2040}
PolySideSamples == {0, 1998, 2002, 2018}
PrevCloseSamples == {0, 1980}

\* the quote the "brief" feed answers with
GoodQuote ==
    [regularMarketPrice |-> Some(2040), postMarketPrice |-> None,
     preMarketPrice |-> None, regularMarketChangePercent |-> Some(3),
     quoteType |-> Some("EQUITY"), regularMarketVolume |-> Some(300),
     averageDailyVolume3Month |-> Some(1000), averageVolume |-> None]

\* what yahooFinance.quote(t) may settle to
YahooQuoteResponses ==
    IF feed = "brief" THEN {Rejected, Fulfilled(Some(GoodQuote))}
    ELSE {Rejected, Fulfilled(None)} \cup
         {Fulfilled(Some([GoodQuote EXCEPT !.regularMarketPrice = r,
                                           !.postMarketPrice = o,
                                           !.regularMarketChangePercent = c,
                                           !.quoteType = k])) :
            r \in Opt(YahooPriceSamples), o \in Opt({2010}),
            c \in Opt({3}), k \in Opt(QuoteTypes)}

\* what yahooFinance.quoteSummary(t, {modules}) may settle to
YahooSummaryResponses ==
    IF feed = "brief" THEN {Rejected}
    ELSE {Rejected, Fulfilled(None),
          Fulfilled(Some([price |-> None, summaryDetail |-> None]))} \cup
         {Fulfilled(Some([price |-> Some(
                [regularMarketPrice |-> r, postMarketPrice |-> None,
                 preMarketPrice |-> o, regularMarketChangePercent |-> None,
                 postMarketChangePercent |-> c, preMarketChangePercent |-> None,
                 quoteType |-> k, regularMarketVolume |-> Some(300)]),
              summaryDetail |-> d])) :
            r \in Opt({0, 2040}), o \in Opt({1990}), c \in Opt({0 - 2}),
            k \in Opt({"EQUITY", "CRYPTOCURRENCY"}),
            d \in {None,
                   Some([averageVolume |-> Some(0), averageVolume3Month |-> Some(900)]),
                   Some([averageVolume |-> Some(1000), averageVolume3Month |-> None])}}

\* what GET /v2/last/nbbo/{t} may settle to (the body is r.data?.results)
PolyNbboResponses ==
    IF feed = "brief" THEN {Rejected, Fulfilled(Some([bid |-> Some(1998), ask |-> Some(2002)]))}
    ELSE {Rejected, Fulfilled(None)} \cup
         {Fulfilled(Some([bid |-> b, ask |-> a])) :
            b \in Opt(PolySideSamples), a \in Opt(PolySideSamples)}

\* what GET /v2/aggs/ticker/{t}/prev may settle to (r.data?.results?.[0])
PolyPrevResponses ==
    IF feed = "brief" THEN {Rejected, Fulfilled(None)}
    ELSE {Rejected, Fulfilled(None)} \cup
         {Fulfilled(Some([c |-> c])) : c \in Opt(PrevCloseSamples)}

\* a provider request for the symbol norm(t), made for the entry symbol raw
CallFor(api, t, raw) == [api |-> api, symbol |-> norm(Some(t)), raw |-> raw]
Call(api) == CallFor(api, gqTicker, gqRaw)

QuoteOf_PolygonWithoutRaw(y, p) ==
    IF ~IsNone(p)
    THEN [price   |-> Some(Val(p).price),
          chg     |-> Val(p).chg,
          type    |-> y.type,
          session |-> getSession(dow, mins),
          source  |-> "Polygon",
          flag    |-> IF discrepancyFlag(Val(p).price, y.price, DISC_BPS)
                      THEN "Discrepancy" ELSE "",
          alt     |-> Some(y.price),
          raw     |-> None]
    ELSE [price   |-> y.price,
          chg     |-> y.chg,
          type    |-> y.type,
          session |-> getSession(dow, mins),
          source  |-> y.source,
          flag    |-> "",
          alt     |-> None,
          raw     |-> y.raw]

\* the object getQuote returns from y and the polygonQuote result p; the
\* flag's text is "" or not; alt holds the Yahoo price that fmt() prints
QuoteOf(y, p) ==
    IF ~IsNone(p)
    THEN [price   |-> Some(Val(p).price),
          chg     |-> Val(p).chg,
          type    |-> y.type,
          session |-> getSession(dow, mins),
          source  |-> "Polygon",
          flag    |-> IF discrepancyFlag(Val(p).price, y.price, DISC_BPS)
                      THEN "Discrepancy" ELSE "",
          alt     |-> Some(y.price),
          raw     |-> y.raw]
    ELSE [price   |-> y.price,
          chg     |-> y.chg,
          type    |-> y.type,
          session |-> getSession(dow, mins),
          source  |-> y.source,
          flag    |-> "",
          alt     |-> None,
          raw     |-> y.raw]

Returned(v) == [kind |-> "returned", value |-> v]
Threw(e) == [kind |-> "threw", error |-> e]

\* the response each request of a getQuote call last settled with
NothingSeen == [quote |-> None, summary |-> None, nbbo |-> None, prev |-> None]

QuoteIdle ==
    /\ gqPc = "idle" /\ gqTicker = <<>> /\ gqY = None /\ gqPrice = None
    /\ gqP = None /\ gqTries = 0 /\ gqResult = None /\ gqRaw = <<>>
    /\ gqSeen = NothingSeen /\ gqAttempts = 0
    /\ netCalls = {}
    /\ gqId = 1 /\ gqParked = <<>>

EnvIdle == POLY = FALSE /\ DISC_BPS = DEFAULT_DISC_BPS /\ feed = "brief"

\* getQuote(t) up to its first await: yahooFinance.quote(norm(t)) is started;
\* calls are the requests already made for the entry point
GetQuoteStart(t, raw, calls) ==
    /\ gqTicker' = t
    /\ gqRaw' = raw
    /\ gqPc' = "yahoo.quote"
    /\ netCalls' = calls \cup {CallFor("yahoo.quote", t, raw)}
    /\ gqY' = None /\ gqPrice' = None /\ gqP' = None /\ gqTries' = 0
    /\ gqResult' = None
    /\ gqSeen' = NothingSeen /\ gqAttempts' = 0

\* getQuote returns QuoteOf(y, p)
GetQuoteReturn(y, p) ==
    /\ gqPc' = "done"
    /\ gqY' = Some(y)
    /\ gqP' = p
    /\ gqResult' = Returned(QuoteOf(y, p))

AfterYahoo_IgnoresKey(y) ==
    IF y.type \in {"EQUITY", "ETF"}
    THEN /\ gqY' = Some(y)
         /\ gqPc' = "poly.nbbo"
         /\ gqTries' = RETRY_TRIES
         /\ gqAttempts' = 1
         /\ netCalls' = netCalls \cup {Call("poly.nbbo")}
         /\ UNCHANGED <<gqPrice, gqP, gqResult>>
    ELSE /\ GetQuoteReturn(y, None)
         /\ UNCHANGED <<gqPrice, gqTries, gqAttempts, netCalls>>

AfterYahoo_AnyType(y) ==
    IF POLY
    THEN /\ gqY' = Some(y)
         /\ gqPc' = "poly.nbbo"
         /\ gqTries' = RETRY_TRIES
         /\ gqAttempts' = 1
         /\ netCalls' = netCalls \cup {Call("poly.nbbo")}
         /\ UNCHANGED <<gqPrice, gqP, gqResult>>
    ELSE /\ GetQuoteReturn(y, None)
         /\ UNCHANGED <<gqPrice, gqTries, gqAttempts, netCalls>>

\* getQuote after yahooQuoteFull returned y: polygonQuote is asked only for
\* EQUITY and ETF, and returns null before any request when POLY is unset
AfterYahoo(y) ==
    IF y.type \in {"EQUITY", "ETF"} /\ POLY
    THEN /\ gqY' = Some(y)
         /\ gqPc' = "poly.nbbo"
         /\ gqTries' = RETRY_TRIES
         /\ gqAttempts' = 1
         /\ netCalls' = netCalls \cup {Call("poly.nbbo")}
         /\ UNCHANGED <<gqPrice, gqP, gqResult>>
    ELSE /\ GetQuoteReturn(y, None)
         /\ UNCHANGED <<gqPrice, gqTries, gqAttempts, netCalls>>

\* yahooFinance.quote settles: a quote with a price goes on, everything
\* else enters the catch block, which starts quoteSummary
YahooQuoteResponds ==
    /\ gqPc = "yahoo.quote"
    /\ \E r \in YahooQuoteResponses :
          LET y == IF r.ok THEN yahooFromQuote(r.body) ELSE None
          IN  IF IsNone(y)
              THEN /\ gqPc' = "yahoo.summary"
                   /\ netCalls' = netCalls \cup {Call("yahoo.quoteSummary")}
                   /\ gqSeen' = [gqSeen EXCEPT !.quote = Some(r)]
                   /\ UNCHANGED <<gqY, gqPrice, gqP, gqTries, gqAttempts, gqResult>>
              ELSE /\ AfterYahoo(Val(y))
                   /\ gqSeen' = [gqSeen EXCEPT !.quote = Some(r)]
    /\ UNCHANGED <<vSession, vRvol, vEnv, vConc, vPure, vScan, gqTicker, gqRaw, vCmd, vSched>>

\* quoteSummary settles: its rejection and 'No price on quoteSummary' leave
\* yahooQuoteFull, and so getQuote, as exceptions
YahooSummaryResponds ==
    /\ gqPc = "yahoo.summary"
    /\ \E r \in YahooSummaryResponses :
          /\ gqSeen' = [gqSeen EXCEPT !.summary = Some(r)]
          /\ IF ~r.ok
             THEN /\ gqPc' = "done" /\ gqResult' = Threw("quoteSummary rejected")
                  /\ UNCHANGED <<gqY, gqPrice, gqP, gqTries, gqAttempts, netCalls>>
             ELSE IF IsNone(yahooFromSummary(r.body))
             THEN /\ gqPc' = "done" /\ gqResult' = Threw("No price on quoteSummary")
                  /\ UNCHANGED <<gqY, gqPrice, gqP, gqTries, gqAttempts, netCalls>>
             ELSE AfterYahoo(Val(yahooFromSummary(r.body)))
    /\ UNCHANGED <<vSession, vRvol, vEnv, vConc, vPure, vScan, gqTicker, gqRaw, vCmd, vSched>>

\* the NBBO request settles: a rejection is retried while tries > 0, then
\* caught (polygonQuote returns null); no midpoint returns null
PolyNbboResponds ==
    /\ gqPc = "poly.nbbo"
    /\ \E r \in PolyNbboResponses :
          /\ gqSeen' = [gqSeen EXCEPT !.nbbo = Some(r)]
          /\ IF ~r.ok
             THEN IF gqTries <= 0
                  THEN /\ GetQuoteReturn(Val(gqY), None)
                       /\ UNCHANGED <<gqPrice, gqTries, gqAttempts, netCalls>>
                  ELSE /\ gqTries' = gqTries - 1
                       /\ gqAttempts' = gqAttempts + 1
                       /\ UNCHANGED <<gqPc, gqY, gqPrice, gqP, gqResult, netCalls>>
             ELSE IF IsNone(polyMid(r.body))
             THEN /\ GetQuoteReturn(Val(gqY), None)
                  /\ UNCHANGED <<gqPrice, gqTries, gqAttempts, netCalls>>
             ELSE /\ gqPrice' = polyMid(r.body)
                  /\ gqPc' = "poly.prev"
                  /\ gqTries' = RETRY_TRIES
                  /\ gqAttempts' = 1
                  /\ netCalls' = netCalls \cup {Call("poly.prev")}
                  /\ UNCHANGED <<gqY, gqP, gqResult>>
    /\ UNCHANGED <<vSession, vRvol, vEnv, vConc, vPure, vScan, gqTicker, gqRaw, vCmd, vSched>>

\* the previous-close request settles; polygonQuote returns
\* {price, chg, source: 'Polygon'} and getQuote reconciles it with y
PolyPrevResponds ==
    /\ gqPc = "poly.prev"
    /\ \E r \in PolyPrevResponses :
          /\ gqSeen' = [gqSeen EXCEPT !.prev = Some(r)]
          /\ IF ~r.ok
             THEN IF gqTries <= 0
                  THEN /\ GetQuoteReturn(Val(gqY), None)
                       /\ UNCHANGED <<gqPrice, gqTries, gqAttempts, netCalls>>
                  ELSE /\ gqTries' = gqTries - 1
                       /\ gqAttempts' = gqAttempts + 1
                       /\ UNCHANGED <<gqPc, gqY, gqPrice, gqP, gqResult, netCalls>>
             ELSE /\ GetQuoteReturn(Val(gqY),
                       Some([price  |-> Val(gqPrice),
                             chg    |-> polyChg(Val(gqPrice), r.body),
                             source |-> "Polygon"]))
                  /\ UNCHANGED <<gqPrice, gqTries, gqAttempts, netCalls>>
    /\ UNCHANGED <<vSession, vRvol, vEnv, vConc, vPure, vScan, gqTicker, gqRaw, vCmd, vSched>>

----------------------------------------------------------------------------
(* Specification SpecQuote: one getQuote call against every upstream       *)
(* behaviour of the "full" feed                                            *)

NVDA == <<"N", "V", "D", "A">>
QuoteTickers == {NVDA}

\* Wednesday 10:00 (RTH) and Saturday 10:00 (OFF)
QuoteClocks == {<<3, 600>>, <<6, 600>>}

QuoteEnvInit ==
    /\ POLY \in BOOLEAN
    /\ DISC_BPS \in DiscBpsSamples
    /\ feed = "full"
    /\ \E c \in QuoteClocks : dow = c[1] /\ mins = c[2]
    /\ session = "none"

CallGetQuote ==
    /\ gqPc = "idle" /\ cmdName = "idle"
    /\ \E t \in QuoteTickers : GetQuoteStart(t, t, {})
    /\ UNCHANGED <<vSession, vRvol, vEnv, vConc, vPure, vScan, vCmd, vSched>>

----------------------------------------------------------------------------
(* Entry points: src/index.js 593-634, 879-891, 947-1151                   *)

\* .replace(/["...]/g, '').replace(/\$/g, '') (the curly quotes the first
\* expression also removes are not among the sampled characters)
stripQuotesAndDollars(s) == SelectSeq(s, LAMBDA c : c \notin {"\"", "$"})

\* .split(/[^A-Z0-9.\-]+/).filter(Boolean), with cur the word being read
RECURSIVE splitWords(_, _)
splitWords(s, cur) ==
    IF s = <<>> THEN (IF cur = <<>> THEN <<>> ELSE <<cur>>)
    ELSE IF IsTickerChar(Head(s)) THEN splitWords(Tail(s), Append(cur, Head(s)))
    ELSE (IF cur = <<>> THEN <<>> ELSE <<cur>>) \o splitWords(Tail(s), <<>>)

words(text) == splitWords(toUpperCase(stripQuotesAndDollars(text)), <<>>)

\* [...new Set(list)]: first occurrences, in order
RECURSIVE unique(_)
unique(l) ==
    IF l = <<>> THEN <<>>
    ELSE LET r == unique(SubSeq(l, 1, Len(l) - 1))
         IN  IF l[Len(l)] \in Range(r) THEN r ELSE Append(r, l[Len(l)])

slice_Whole(l, n) == l

\* list.slice(0, n)
slice(l, n) == SubSeq(l, 1, Min(n, Len(l)))

mapNorm(l) == [i \in 1 .. Len(l) |-> norm(Some(l[i]))]

\* .slice(0, 4) of /alert, /schedule_add and postExpressAlert
MAX_TICKERS == 4

\* getString(name) || dflt: null and the empty string take the default
OrDefault(v, dflt) == IF IsNone(v) \/ Val(v) = <<>> THEN dflt ELSE Val(v)

SPY == <<"S", "P", "Y">>
BTC_USD == <<"B", "T", "C", "-", "U", "S", "D">>

\* tickers of /alert: the words that pass isTicker, else ['NVDA']
alertTickers(text) ==
    LET list == slice(unique(SelectSeq(words(text), LAMBDA w : isTicker(Some(w)))),
                      MAX_TICKERS)
    IN  IF list = <<>> THEN <<NVDA>> ELSE list

scheduleTickers_OrDefault(text) ==
    alertTickers(toUpperCase(stripQuotesAndDollars(text)))

\* entry.tickers of /schedule_add; empty when the command is refused
scheduleTickers(text) ==
    slice(unique(SelectSeq(mapNorm(words(text)), LAMBDA w : isTicker(Some(w)))),
          MAX_TICKERS)

\* cron.validate: the sampled expressions that node-cron accepts
CRON_9AM == "0 9 * * 1-5"
CRON_NOON == "0 12 * * 1-5"
CRON_1530 == "30 15 * * 1-5"
CronSamples == {CRON_9AM, "every day"}
cronValidate(c) == c \in {CRON_9AM, CRON_NOON, CRON_1530}

\* what a user may type as one symbol
RawSymbols ==
    {<<"n", "v", "d", "a">>, <<"$", "$", "$">>, <<"1", "A", "B", "C">>,
     <<" ", "b", "r", "k", ".", "b">>}

\* what a user may type as a text of symbols
RawTexts ==
    {<<>>,
     <<"$", "n", "v", "d", "a", " ", "$", "$", "$">>,
     <<"1", "a", "b", "c", ",", "s", "p", "y", ",", "S", "P", "Y">>,
     <<"a", " ", "b", " ", "c", " ", "d", " ", "e">>,
     <<"1", "a", "b", "c">>}

\* schedules kept at once, and ids handed out
MaxSchedules == 2
MaxScheduleId == 3

\* the handler revisions: src/index.js and src/unnamed/part_000
CmdRevisions == {"index.js", "part_000"}

\* JOBS = new Map()
NoJobs == [k \in {} |-> k]

\* the job table: the Map JOBS and the cron jobs that are running
JobTable(jobs, running) == [JOBS |-> jobs, started |-> running]

\* cron.schedule(entry.cron, () => postExpressAlert(entry.tickers, ...)):
\* the job is the entry its callback closes over
Job(entry) == entry

startJob_NotRecorded(js, entry) ==
    JobTable(js.JOBS, js.started \cup {Job(entry)})

\* startJob(entry)   (index.js 622-633, part_000 283-291)
startJob(js, entry) ==
    IF ~cronValidate(entry.cron) THEN js
    ELSE JobTable((entry.id :> Job(entry)) @@ js.JOBS, js.started \cup {Job(entry)})

stopJob_KeepsRunning(js, id) ==
    JobTable([k \in DOMAIN js.JOBS \ {id} |-> js.JOBS[k]], js.started)

\* stopJob(id)   (index.js 635-638, part_000 292-296)
stopJob(js, id) ==
    IF id \in DOMAIN js.JOBS
    THEN JobTable([k \in DOMAIN js.JOBS \ {id} |-> js.JOBS[k]],
                  js.started \ {js.JOBS[id]})
    ELSE js

\* for (const e of list) startJob(e)
RECURSIVE startJobs(_, _)
startJobs(js, list) ==
    IF list = <<>> THEN js ELSE startJobs(startJob(js, Head(list)), Tail(list))

\* restartAllJobs()   (index.js 640-644, part_000 297-301)
restartAllJobs(js, schedules) ==
    startJobs(JobTable(NoJobs, js.started \ Range(js.JOBS)), schedules)

\* Math.max(0, ...list.map(x => x.id || 0))
maxId(list) ==
    IF list = <<>> THEN 0
    ELSE CHOOSE m \in Range([i \in 1 .. Len(list) |-> list[i].id]) :
             \A i \in 1 .. Len(list) : list[i].id <= m

\* loadSchedules()   (index.js 598-612, part_000 261-275): the file holds the
\* array saveSchedules wrote, or does not exist
loadSchedules(file) ==
    IF IsNone(file) THEN [SCHEDULES |-> <<>>, NEXT_ID |-> 1]
    ELSE [SCHEDULES |-> Val(file), NEXT_ID |-> maxId(Val(file)) + 1]

\* the baseline schedules of the ready handler   (index.js 1160-1164)
QQQ  == <<"Q", "Q", "Q">>
TSLA == <<"T", "S", "L", "A">>
AAPL == <<"A", "A", "P", "L">>
Baseline ==
    << [cron |-> CRON_9AM, tickers |-> <<SPY, QQQ, NVDA, TSLA>>],
       [cron |-> CRON_NOON, tickers |-> <<SPY>>],
       [cron |-> CRON_1530, tickers |-> <<SPY, AAPL>>] >>

\* for (const d of defaults) { entry = { id: NEXT_ID++, ...d }; push; startJob }
RECURSIVE addDefaults(_, _)
addDefaults(st, defaults) ==
    IF defaults = <<>> THEN st
    ELSE LET d == Head(defaults)
             entry == [id |-> st.NEXT_ID, cron |-> d.cron, tickers |-> d.tickers]
             js == startJob(JobTable(st.JOBS, st.started), entry)
         IN  addDefaults([SCHEDULES |-> Append(st.SCHEDULES, entry),
                          NEXT_ID |-> st.NEXT_ID + 1,
                          JOBS |-> js.JOBS, started |-> js.started,
                          file |-> st.file,
                          ids |-> Append(st.ids, entry.id)],
                         Tail(defaults))

\* client.once('ready', ...) in a fresh process   (index.js 1154-1172):
\* the scheduler after startup, with ids the ids it gave out
ready(file, chan) ==
    LET l  == loadSchedules(file)
        js == restartAllJobs(JobTable(NoJobs, {}), l.SCHEDULES)
        st == [SCHEDULES |-> l.SCHEDULES, NEXT_ID |-> l.NEXT_ID,
               JOBS |-> js.JOBS, started |-> js.started,
               file |-> file, ids |-> <<>>]
    IN  IF chan # "" /\ l.SCHEDULES = <<>>
        THEN LET b == addDefaults(st, Baseline)
             IN  [b EXCEPT !.file = Some(b.SCHEDULES)]
        ELSE st

CmdIdle ==
    /\ cmdName = "idle" /\ cmdQueue = <<>> /\ cmdReply = "none"
    /\ cmdOpts = None /\ cmdRev = "index.js"
SchedIdle ==
    /\ SCHEDULES = <<>> /\ JOBS = NoJobs /\ NEXT_ID = 1
    /\ schedulesFile = None /\ started = {} /\ assigned = {}
    /\ DEFAULT_CHANNEL_ID = ""

\* the scheduler is as ready() leaves it
SchedulerIs(st) ==
    /\ SCHEDULES = st.SCHEDULES /\ JOBS = st.JOBS /\ NEXT_ID = st.NEXT_ID
    /\ started = st.started /\ schedulesFile = st.file

\* the process has started, without a schedules file, with or without a
\* default channel
SchedInit ==
    /\ DEFAULT_CHANNEL_ID \in {"", "channel"}
    /\ SchedulerIs(ready(None, DEFAULT_CHANNEL_ID))
    /\ assigned = Range(ready(None, DEFAULT_CHANNEL_ID).ids)

\* a symbol to quote: getQuote(t) is called for the entry symbol raw
Item(t, raw) == [t |-> t, raw |-> raw]

\* an entry point begins: reply deferred (or channel fetched), symbols queued
BeginWith(name, items, opts) ==
    /\ cmdName = "idle" /\ gqPc = "idle"
    /\ cmdName' = name
    /\ cmdQueue' = items
    /\ cmdReply' = "deferred"
    /\ cmdOpts' = opts
    /\ netCalls' = {}
    /\ UNCHANGED <<vCall, cmdRev>>

Begin(name, items) == BeginWith(name, items, None)

\* the options of /alert
AlertOpts(text) == [name |-> "alert", text |-> text]

\* /alert text:<text>   (index.js 958-980)
CmdAlert ==
    /\ \E text \in Opt(RawTexts) :
          LET tickers == alertTickers(OrDefault(text, NVDA))
          IN  BeginWith("alert",
                        [i \in 1 .. Len(tickers) |-> Item(tickers[i], tickers[i])],
                        Some(AlertOpts(text)))
    /\ UNCHANGED <<vSession, vRvol, vEnv, vConc, vPure, vScan, vSched>>

\* /deep ticker:<symbol>   (index.js 983-1013), up to the reply
CmdDeep ==
    /\ \E ticker \in Opt(RawSymbols) :
          LET raw == OrDefault(ticker, SPY)
          IN  Begin("deep", <<Item(norm(Some(raw)), raw)>>)
    /\ UNCHANGED <<vSession, vRvol, vEnv, vConc, vPure, vScan, vSched>>

\* /scalp symbol:<symbol>   (index.js 1015-1038)
CmdScalp ==
    /\ \E sym \in Opt(RawSymbols) :
          LET raw == OrDefault(sym, BTC_USD)
          IN  Begin("scalp", <<Item(norm(Some(raw)), raw)>>)
    /\ UNCHANGED <<vSession, vRvol, vEnv, vConc, vPure, vScan, vSched>>

\* the options of a schedule command
AddOpts(cronStr, tickStr) ==
    [name |-> "schedule_add", cron |-> cronStr, tickers |-> tickStr]
RemoveOpts(id) == [name |-> "schedule_remove", id |-> id]

\* /schedule_add cron:<cron> tickers:<text>   (index.js 1071-1106)
CmdScheduleAdd ==
    /\ cmdName = "idle" /\ gqPc = "idle"
    /\ Len(SCHEDULES) < MaxSchedules /\ NEXT_ID <= MaxScheduleId
    /\ \E cronStr \in CronSamples, tickStr \in Opt(RawTexts) :
          LET tickers == scheduleTickers(safeStr(tickStr))
              entry == [id |-> NEXT_ID, cron |-> cronStr, tickers |-> tickers]
              js == startJob(JobTable(JOBS, started), entry)
          IN  /\ cmdOpts' = Some(AddOpts(cronStr, tickStr))
              /\ IF ~cronValidate(cronStr) \/ tickers = <<>>
                 THEN /\ cmdReply' = "refused"
                      /\ UNCHANGED vSched
                 ELSE /\ cmdReply' = "replied"
                      /\ NEXT_ID' = NEXT_ID + 1
                      /\ SCHEDULES' = Append(SCHEDULES, entry)
                      /\ schedulesFile' = Some(SCHEDULES')
                      /\ JOBS' = js.JOBS
                      /\ started' = js.started
                      /\ assigned' = assigned \cup {entry.id}
                      /\ UNCHANGED DEFAULT_CHANNEL_ID
    /\ netCalls' = {}
    /\ UNCHANGED <<vSession, vRvol, vEnv, vConc, vPure, vScan, cmdName, cmdQueue,
                   cmdRev>>
    /\ UNCHANGED vCall

\* SCHEDULES.findIndex(e => e.id === id): 0 stands for -1
findIndex(list, id) ==
    IF \E k \in 1 .. Len(list) : list[k].id = id
    THEN CHOOSE k \in 1 .. Len(list) :
             /\ list[k].id = id
             /\ \A j \in 1 .. k - 1 : list[j].id # id
    ELSE 0

\* list.splice(idx, 1): the list without its element idx
splice(list, idx) == SubSeq(list, 1, idx - 1) \o SubSeq(list, idx + 1, Len(list))

\* /schedule_remove id:<id>   (index.js 1115-1127)
CmdScheduleRemove ==
    /\ cmdName = "idle" /\ gqPc = "idle"
    /\ \E id \in 1 .. MaxScheduleId + 1 :
          LET idx == findIndex(SCHEDULES, id)
              js == stopJob(JobTable(JOBS, started), id)
          IN  /\ cmdOpts' = Some(RemoveOpts(id))
              /\ IF idx = 0
                 THEN /\ cmdReply' = "refused"
                      /\ UNCHANGED vSched
                 ELSE /\ JOBS' = js.JOBS
                      /\ started' = js.started
                      /\ SCHEDULES' = splice(SCHEDULES, idx)
                      /\ schedulesFile' = Some(SCHEDULES')
                      /\ cmdReply' = "replied"
                      /\ UNCHANGED <<NEXT_ID, assigned, DEFAULT_CHANNEL_ID>>
    /\ netCalls' = {}
    /\ UNCHANGED <<vSession, vRvol, vEnv, vConc, vPure, vScan, cmdName, cmdQueue,
                   cmdRev>>
    /\ UNCHANGED vCall

\* the process is restarted between two commands and becomes ready again
\* (index.js 1154-1172): memory starts afresh, the file stays
Restart ==
    /\ cmdName = "idle" /\ gqPc = "idle"
    /\ LET st == ready(schedulesFile, DEFAULT_CHANNEL_ID)
       IN  /\ SCHEDULES' = st.SCHEDULES /\ JOBS' = st.JOBS /\ NEXT_ID' = st.NEXT_ID
           /\ started' = st.started /\ schedulesFile' = st.file
           /\ assigned' = assigned \cup Range(st.ids)
    /\ cmdReply' = "none" /\ cmdOpts' = None /\ netCalls' = {}
    /\ UNCHANGED <<vSession, vRvol, vEnv, vConc, vPure, vScan, cmdName, cmdQueue,
                   cmdRev, DEFAULT_CHANNEL_ID>>
    /\ UNCHANGED vCall

\* a running cron job fires: postExpressAlert(entry.tickers, entry.channelId)
\* (index.js 627, 879-882)
JobTick ==
    /\ \E job \in started :
          LET list == slice(mapNorm(job.tickers), MAX_TICKERS)
          IN  Begin("tick", [i \in 1 .. Len(list) |-> Item(list[i], job.tickers[i])])
    /\ UNCHANGED <<vSession, vRvol, vEnv, vConc, vPure, vScan, vSched>>

\* for (const t of tickers) { const q = await getQuote(t); ... }
NextTicker ==
    /\ cmdName # "idle" /\ gqPc = "idle" /\ cmdQueue # <<>>
    /\ GetQuoteStart(Head(cmdQueue).t, Head(cmdQueue).raw, netCalls)
    /\ cmdQueue' = Tail(cmdQueue)
    /\ UNCHANGED <<vSession, vRvol, vEnv, vConc, vPure, vScan, vSched, cmdName, cmdReply,
                   cmdOpts, cmdRev>>

\* getQuote settled inside an entry point: a quote goes on to the block and
\* the next symbol; an exception reaches the handler's catch (safeReply of
\* the provider error), or nobody in a cron callback; the locals of the
\* finished call are dropped
QuoteSettled ==
    /\ cmdName # "idle" /\ gqPc = "done"
    /\ gqPc' = "idle" /\ gqTicker' = <<>> /\ gqRaw' = <<>> /\ gqY' = None
    /\ gqPrice' = None /\ gqP' = None /\ gqTries' = 0 /\ gqResult' = None
    /\ gqSeen' = NothingSeen /\ gqAttempts' = 0
    /\ IF gqResult.kind = "threw"
       THEN /\ cmdReply' = IF cmdName = "tick" THEN "unhandled" ELSE "error"
            /\ cmdName' = "idle"
            /\ cmdQueue' = <<>>
       ELSE IF cmdQueue = <<>>
       THEN /\ cmdReply' = "replied"
            /\ cmdName' = "idle"
            /\ UNCHANGED cmdQueue
       ELSE UNCHANGED <<cmdName, cmdQueue, cmdReply>>
    /\ UNCHANGED <<vSession, vRvol, vEnv, vConc, vPure, vScan, vSched, netCalls,
                   cmdOpts, cmdRev>>

\* the reply state the catch of the interaction handler leaves on a deferred
\* interaction: safeReply edits the deferred reply (index.js 950-955,
\* 1147-1150); i.reply (part_000 492-497) is rejected for an interaction
\* already deferred, the rejection is swallowed and the reply stays deferred
catchReply(rev) == IF rev = "index.js" THEN "error" ELSE "deferred"

\* what awaiting postLowcapTopN / postLowcap does to the handler: "returned"
\* or "threw".  postLowcapTopN catches what the channel fetch, the scan or
\* the send throw (index.js 745-754); postLowcap does not (part_000 321-326)
postOutcome(rev, failed) ==
    IF failed /\ rev = "part_000" THEN "threw" ELSE "returned"

\* /scan_lowcap   (index.js 1130-1137, part_000 429-436), up to the await of
\* the post
CmdScanLowcap ==
    /\ Begin("scan_lowcap", <<>>)
    /\ UNCHANGED <<vSession, vRvol, vEnv, vConc, vPure, vScan, vSched>>

\* the post of /scan_lowcap settles, with or without a failure of the
\* channel fetch, the scan or the send; the handler replies or reaches its
\* catch, and ends
PostSettled ==
    /\ cmdName = "scan_lowcap" /\ cmdReply = "deferred"
    /\ \E failed \in BOOLEAN :
          cmdReply' = IF postOutcome(cmdRev, failed) = "threw"
                      THEN catchReply(cmdRev)
                      ELSE "replied"
    /\ cmdName' = "idle"
    /\ UNCHANGED <<vSession, vRvol, vEnv, vQuote, vConc, vPure, vScan, vSched,
                   cmdQueue, cmdOpts, cmdRev>>

\* an interaction handler of either revision is about to run
RepliesInit ==
    /\ cmdName = "idle" /\ cmdQueue = <<>> /\ cmdReply = "none"
    /\ cmdOpts = None /\ cmdRev \in CmdRevisions

SchedulerEnvInit ==
    /\ POLY = FALSE
    /\ DISC_BPS = DEFAULT_DISC_BPS
    /\ feed = "brief"
    /\ dow = 3 /\ mins = 600 /\ session = "none"

CommandsEnvInit ==
    /\ POLY \in BOOLEAN
    /\ DISC_BPS = DEFAULT_DISC_BPS
    /\ feed = "brief"
    /\ dow = 3 /\ mins = 600 /\ session = "none"

----------------------------------------------------------------------------
(* Scanners: src/index.js 646-657, 677-715, 757-776                        *)

\* yahooQuoteFull(t) on the settled quote request rq and, when the try
\* block throws, the settled quoteSummary request rs; None when it throws
yahooQuoteFull(rq, rs) ==
    LET y == IF rq.ok THEN yahooFromQuote(rq.body) ELSE None
    IN  IF ~IsNone(y) THEN y
        ELSE IF ~rs.ok THEN None
        ELSE yahooFromSummary(rs.body)

\* 0.5, 7 and 20 USD in half-cents; 200_000 and 300_000 shares in thousands
LOWCAP_MIN_PRICE == 100
LOWCAP_MAX_PRICE == 1400
GAPPER_MAX_PRICE == 4000
LOWCAP_MIN_VOL == 200
GAPPER_MIN_VOL == 300

\* Number(q.raw?.regularMarketVolume || 0)
scanVol(y) == Val(OrElse(Field(y.raw, "regularMarketVolume"), Some(0)))
\* Number(q.raw?.averageDailyVolume3Month || q.raw?.averageVolume || 0)
scanAvg(y) ==
    Val(OrElse(OrElse(Field(y.raw, "averageDailyVolume3Month"),
                      Field(y.raw, "averageVolume")), Some(0)))

\* vol / Math.max(1, avg), both in thousands of shares
scanRvol(vol, avg) == Rat(vol * 1000, Max(1, avg * 1000))

\* the row scanLowcapsTopN pushes for a quote, None on `continue`; k is the
\* symbol's position in the universe (kept for stating the order; the
\* display fields floatDisp and news are left out)
lowcapRow(t, k, y) ==
    IF IsNone(y.price) \/ ~(Val(y.price) >= LOWCAP_MIN_PRICE /\ Val(y.price) <= LOWCAP_MAX_PRICE)
    THEN None
    ELSE IF scanVol(y) < LOWCAP_MIN_VOL \/ scanAvg(y) <= 0 THEN None
    ELSE IF RatLt(scanRvol(scanVol(y), scanAvg(y)), Rat(3, 2)) THEN None
    ELSE Some([t |-> norm(Some(t)), k |-> k, price |-> Val(y.price), chg |-> y.chg,
               vol |-> scanVol(y), rvol |-> scanRvol(scanVol(y), scanAvg(y))])

\* the row scanGappersTopN pushes for a quote
gapperRow(t, k, y) ==
    IF IsNone(y.price) \/ ~(Val(y.price) >= LOWCAP_MIN_PRICE /\ Val(y.price) <= GAPPER_MAX_PRICE)
    THEN None
    ELSE IF scanVol(y) < GAPPER_MIN_VOL THEN None
    ELSE Some([t |-> norm(Some(t)), k |-> k, price |-> Val(y.price), chg |-> y.chg,
               vol |-> scanVol(y)])

scanRow(kind, t, k, y) == IF kind = "lowcap" THEN lowcapRow(t, k, y) ELSE gapperRow(t, k, y)

rowsAfter_AbortOnFailure(kind, rows, t, k, y) ==
    IF IsNone(y) THEN <<>>
    ELSE IF IsNone(scanRow(kind, t, k, Val(y))) THEN rows
    ELSE Append(rows, Val(scanRow(kind, t, k, Val(y))))

\* one pass of the for loop: a throwing yahooQuoteFull is caught and the
\* symbol skipped
rowsAfter(kind, rows, t, k, y) ==
    IF IsNone(y) \/ IsNone(scanRow(kind, t, k, Val(y))) THEN rows
    ELSE Append(rows, Val(scanRow(kind, t, k, Val(y))))

withScore_MinusChg(x) ==
    [t |-> x.t, k |-> x.k, price |-> x.price, chg |-> x.chg, vol |-> x.vol,
     rvol |-> x.rvol,
     score |-> RatAdd(Rat(2 * x.rvol[1], x.rvol[2]), <<0 - x.chg[1], x.chg[2]>>)]

\* x.score = 2 * (x.rvol || 0) + (x.chg || 0)
withScore(x) ==
    [t |-> x.t, k |-> x.k, price |-> x.price, chg |-> x.chg, vol |-> x.vol,
     rvol |-> x.rvol, score |-> RatAdd(Rat(2 * x.rvol[1], x.rvol[2]), x.chg)]

\* src/unnamed/part_000 219: (q.chg || 0) + Math.log10(Math.max(1, q.vol)),
\* kept exactly as lin + log10(arg); vol is in thousands of shares
logScore(x) == [lin |-> x.chg, arg |-> Max(1, x.vol * 1000)]

\* the score of a pushed row in a revision of scanLowcapsTopN, as lin + log10(arg)
scoreOf(rev, x) ==
    IF rev = "index.js" THEN [lin |-> withScore(x).score, arg |-> 1]
    ELSE logScore(x)

RECURSIVE Pow(_, _)
Pow(b, n) == IF n = 0 THEN 1 ELSE b * Pow(b, n - 1)

\* a.lin + log10(a.arg) <= b.lin + log10(b.arg), decided without rounding:
\* with d = b.lin - a.lin = p / q it is a.arg^q <= b.arg^q * 10^p
ScoreLeq(a, b) ==
    LET d == RatAdd(b.lin, <<0 - a.lin[1], a.lin[2]>>)
    IN  IF a.arg = b.arg THEN d[1] >= 0
        ELSE IF d[1] >= 0
        THEN Pow(a.arg, d[2]) <= Pow(b.arg, d[2]) * Pow(10, d[1])
        ELSE Pow(a.arg, d[2]) * Pow(10, 0 - d[1]) <= Pow(b.arg, d[2])

before_TiesReversed(kind, a, b) ==
    IF kind = "lowcap" THEN RatLeq(b.score, a.score)
    ELSE RatLt(b.chg, a.chg) \/ (a.chg = b.chg /\ b.vol <= a.vol)

\* the comparator is negative: a sorts before b
\*   lowcap:  b.score - a.score
\*   gappers: b.chg - a.chg || b.vol - a.vol
before(kind, a, b) ==
    IF kind = "lowcap" THEN RatLt(b.score, a.score)
    ELSE RatLt(b.chg, a.chg) \/ (a.chg = b.chg /\ b.vol < a.vol)

\* x placed into the sorted l ahead of the first element it sorts before
RECURSIVE insertSorted(_, _, _)
insertSorted(kind, l, x) ==
    IF l = <<>> THEN <<x>>
    ELSE IF before(kind, x, Head(l)) THEN <<x>> \o l
    ELSE <<Head(l)>> \o insertSorted(kind, Tail(l), x)

\* Array.prototype.sort, which is stable
RECURSIVE sortRows(_, _)
sortRows(kind, rows) ==
    IF rows = <<>> THEN <<>>
    ELSE insertSorted(kind, sortRows(kind, SubSeq(rows, 1, Len(rows) - 1)), rows[Len(rows)])

\* what follows the loop: score, sort, slice(0, n)
scanFinish(kind, rows, n) ==
    slice(sortRows(kind, IF kind = "lowcap"
                         THEN [i \in 1 .. Len(rows) |-> withScore(rows[i])]
                         ELSE rows), n)

SNTG == <<"S", "N", "T", "G">>
RNXT == <<"R", "N", "X", "T">>
KULR == <<"K", "U", "L", "R">>
HOLO == <<"H", "O", "L", "O">>
TOP  == <<"T", "O", "P">>

\* lowcapUniverse(): the first symbols of the default list, a LOWCAP_LIST
\* naming a symbol twice, and an empty one
UniverseSamples == {<<SNTG, RNXT, KULR, HOLO, TOP>>, <<SNTG, RNXT, SNTG>>, <<>>}

\* n of scanLowcapsTopN(n) and scanGappersTopN(n)
ScanNSamples == {1, 2, 4}

ScanQuote(price, chg, vol, avg) ==
    Fulfilled(Some([GoodQuote EXCEPT !.regularMarketPrice = Some(price),
                                     !.regularMarketChangePercent = Some(chg),
                                     !.regularMarketVolume = Some(vol),
                                     !.averageDailyVolume3Month = Some(avg)]))

\* the two Yahoo requests of one symbol, as <<quote, quoteSummary>>:
\* both failing; scores 3.1, 5 and 2; a 15 USD stock with the change of the
\* second and more volume; the second again through quoteSummary; thin volume
ScanFeeds ==
    IF feed = "brief"
    THEN {<<Rejected, Rejected>>, <<ScanQuote(500, 2, 300, 200), Rejected>>}
    ELSE
    {<<Rejected, Rejected>>,
     <<ScanQuote(500, 0, 310, 200), Rejected>>,
     <<ScanQuote(500, 2, 300, 200), Rejected>>,
     <<ScanQuote(600, 0 - 1, 300, 200), Rejected>>,
     <<ScanQuote(3000, 2, 400, 200), Rejected>>,
     <<Rejected,
       Fulfilled(Some([price |-> Some(
            [regularMarketPrice |-> Some(500), postMarketPrice |-> None,
             preMarketPrice |-> None, regularMarketChangePercent |-> Some(2),
             postMarketChangePercent |-> None, preMarketChangePercent |-> None,
             quoteType |-> None, regularMarketVolume |-> Some(300)]),
          summaryDetail |-> Some([averageVolume |-> Some(200),
                                  averageVolume3Month |-> None])]))>>,
     <<ScanQuote(500, 9, 100, 20), Rejected>>}

ScanIdle ==
    /\ scanPc = "idle" /\ scanKind = "lowcap" /\ scanList = <<>> /\ scanN = 0
    /\ scanIdx = 0 /\ scanOut = <<>> /\ scanSeen = <<>> /\ scanResult = <<>>

\* the scans are checked against the "full" feed
ScanEnvInit == POLY = FALSE /\ DISC_BPS = DEFAULT_DISC_BPS /\ feed = "full"

ScanInit ==
    /\ scanPc = "idle" /\ scanKind = "lowcap" /\ scanList \in UniverseSamples
    /\ scanN = 0 /\ scanIdx = 0 /\ scanOut = <<>> /\ scanSeen = <<>>
    /\ scanResult = <<>>

\* the loop has handled idx - 1 symbols with rows pushed: it awaits the
\* next symbol's quote, or scores, sorts and returns
ScanGoOn(kind, n, rows, idx) ==
    /\ scanOut' = rows
    /\ scanIdx' = idx
    /\ IF idx > Len(scanList)
       THEN /\ scanPc' = "done"
            /\ scanResult' = scanFinish(kind, rows, n)
            /\ UNCHANGED netCalls
       ELSE /\ scanPc' = "loop"
            /\ scanResult' = <<>>
            /\ netCalls' = netCalls \cup
                    {CallFor("yahoo.quote", scanList[idx], scanList[idx])}

\* scanLowcapsTopN(n) or scanGappersTopN(n) is called
ScanStart ==
    /\ scanPc = "idle"
    /\ \E kind \in {"lowcap", "gappers"}, n \in ScanNSamples :
          /\ scanKind' = kind
          /\ scanN' = n
          /\ ScanGoOn(kind, n, <<>>, 1)
    /\ scanSeen' = <<>>
    /\ UNCHANGED <<vSession, vRvol, vEnv, vConc, vPure, vCall, vCmd, vSched, scanList>>

\* yahooQuoteFull(t) settles for the symbol at scanIdx
ScanSymbol ==
    /\ scanPc = "loop"
    /\ \E f \in ScanFeeds :
          LET y == yahooQuoteFull(f[1], f[2])
          IN  /\ scanSeen' = Append(scanSeen, y)
              /\ ScanGoOn(scanKind, scanN,
                          rowsAfter(scanKind, scanOut, scanList[scanIdx], scanIdx, y),
                          scanIdx + 1)
    /\ UNCHANGED <<vSession, vRvol, vEnv, vConc, vPure, vCall, vCmd, vSched, scanList, scanKind, scanN>>

----------------------------------------------------------------------------
(* Specification SpecScore: the score of one row that passed the filters   *)
(* of scanLowcapsTopN, and of rows that differ from it in one field        *)

ScoreRevisions == {"index.js", "part_000"}
\* -1 %, 0 %, 2.5 %; 200_000, 300_000, 450_000 shares; rvol 1.5, 2, 3.1
ScoreChgSamples == {Pct(0 - 1), Pct(0), Rat(5, 2)}
ScoreVolSamples == {200, 300, 450}
ScoreRvolSamples == {Rat(3, 2), Rat(2, 1), Rat(31, 10)}

\* the rows out.push() builds: index.js 708 and part_000 214-220
ScoreRows(rev) ==
    IF rev = "index.js"
    THEN {[t |-> SNTG, k |-> 1, price |-> 500, chg |-> c, vol |-> v, rvol |-> r] :
             c \in ScoreChgSamples, v \in ScoreVolSamples, r \in ScoreRvolSamples}
    ELSE {[t |-> SNTG, price |-> 500, chg |-> c, vol |-> v] :
             c \in ScoreChgSamples, v \in ScoreVolSamples}

NoScore == [lin |-> Pct(0), arg |-> 1]

ScoreIdle ==
    /\ scRev = "index.js" /\ scOp = "idle" /\ scCand = <<>> /\ scScore = NoScore


ScoreInit ==
    /\ scRev \in ScoreRevisions /\ scOp = "input"
    /\ scCand \in ScoreRows(scRev) /\ scScore = NoScore

\* out.forEach(x => { x.score = ... })  (index.js 712); score: ... (part_000 219)
ScoreRow ==
    /\ scOp = "input"
    /\ scScore' = scoreOf(scRev, scCand)
    /\ scOp' = "score"
    /\ UNCHANGED <<scRev, scCand, vSession, vRvol, vEnv, vConc, vQuote, vCmd, vSched,
                   vScan, vNorm, vFilter>>

\* the same row scored once more
ScoreAgain ==
    /\ scOp \notin {"idle", "input", "again"}
    /\ scScore' = scoreOf(scRev, scCand)
    /\ scOp' = "again"
    /\ UNCHANGED <<scRev, scCand, vSession, vRvol, vEnv, vConc, vQuote, vCmd, vSched,
                   vScan, vNorm, vFilter>>

\* a row equal in everything but a higher rvol (index.js rows have the field)
ScoreMoreRvol ==
    /\ scOp \notin {"idle", "input"} /\ scRev = "index.js"
    /\ \E r \in ScoreRvolSamples :
          /\ RatLt(scCand.rvol, r)
          /\ scCand' = [scCand EXCEPT !.rvol = r]
    /\ scScore' = scoreOf(scRev, scCand')
    /\ scOp' = "rvol"
    /\ UNCHANGED <<scRev, vSession, vRvol, vEnv, vConc, vQuote, vCmd, vSched, vScan, vNorm, vFilter>>

\* a row equal in everything but a higher volume
ScoreMoreVolume ==
    /\ scOp \notin {"idle", "input"}
    /\ \E v \in ScoreVolSamples :
          /\ scCand.vol < v
          /\ scCand' = [scCand EXCEPT !.vol = v]
    /\ scScore' = scoreOf(scRev, scCand')
    /\ scOp' = "vol"
    /\ UNCHANGED <<scRev, vSession, vRvol, vEnv, vConc, vQuote, vCmd, vSched, vScan, vNorm, vFilter>>

\* a row equal in everything but a higher percent change
ScoreMoreChange ==
    /\ scOp \notin {"idle", "input"}
    /\ \E c \in ScoreChgSamples :
          /\ RatLt(scCand.chg, c)
          /\ scCand' = [scCand EXCEPT !.chg = c]
    /\ scScore' = scoreOf(scRev, scCand')
    /\ scOp' = "chg"
    /\ UNCHANGED <<scRev, vSession, vRvol, vEnv, vConc, vQuote, vCmd, vSched, vScan, vNorm, vFilter>>

----------------------------------------------------------------------------
(* Specification SpecConcurrent: two getQuote invocations (a scheduled     *)
(* tick's and a command's) and a scan, interleaved at their awaits. The    *)
(* gq variables are the activation record of the invocation that runs;     *)
(* gqParked holds the records of the invocations suspended at an await.    *)

\* polygonQuote(t) on the last responses of its two requests (index.js 386-402)
polygonQuoteOn(rn, rp) ==
    IF IsNone(rn) \/ ~Val(rn).ok \/ IsNone(polyMid(Val(rn).body)) THEN None
    ELSE IF IsNone(rp) \/ ~Val(rp).ok THEN None
    ELSE LET price == Val(polyMid(Val(rn).body))
         IN  Some([price  |-> price,
                   chg    |-> polyChg(price, Val(rp).body),
                   source |-> "Polygon"])

\* getQuote(t) run by itself on the responses seen (index.js 405-428)
getQuoteOn(seen) ==
    LET rq == Val(seen.quote)
        rs == IF IsNone(seen.summary) THEN Rejected ELSE Val(seen.summary)
        y  == yahooQuoteFull(rq, rs)
    IN  IF IsNone(y)
        THEN IF ~rs.ok THEN Threw("quoteSummary rejected")
             ELSE Threw("No price on quoteSummary")
        ELSE Returned(QuoteOf(Val(y),
                 IF Val(y).type \in {"EQUITY", "ETF"} /\ POLY
                 THEN polygonQuoteOn(seen.nbbo, seen.prev)
                 ELSE None))

\* a scan run by itself on the quotes seen (index.js 677-715, 757-776)
RECURSIVE scanRowsOn(_, _, _, _)
scanRowsOn(kind, list, seen, m) ==
    IF m = 0 THEN <<>>
    ELSE rowsAfter(kind, scanRowsOn(kind, list, seen, m - 1), list[m], m, seen[m])
scanOn(kind, list, seen, n) == scanFinish(kind, scanRowsOn(kind, list, seen, Len(list)), n)

\* the activation record of the running invocation
Locals ==
    [id |-> gqId, pc |-> gqPc, ticker |-> gqTicker, raw |-> gqRaw, y |-> gqY,
     price |-> gqPrice, p |-> gqP, tries |-> gqTries, attempts |-> gqAttempts,
     seen |-> gqSeen, result |-> gqResult]

IdleLocals(id) ==
    [id |-> id, pc |-> "idle", ticker |-> <<>>, raw |-> <<>>, y |-> None,
     price |-> None, p |-> None, tries |-> 0, attempts |-> 0,
     seen |-> NothingSeen, result |-> None]

Load_SharedResult(r) ==
    /\ gqId' = r.id /\ gqPc' = r.pc /\ gqTicker' = r.ticker /\ gqRaw' = r.raw
    /\ gqY' = r.y /\ gqPrice' = r.price /\ gqP' = r.p /\ gqTries' = r.tries
    /\ gqAttempts' = r.attempts /\ gqSeen' = r.seen /\ UNCHANGED gqResult

\* the continuation of a suspended invocation runs on its own record
Load(r) ==
    /\ gqId' = r.id /\ gqPc' = r.pc /\ gqTicker' = r.ticker /\ gqRaw' = r.raw
    /\ gqY' = r.y /\ gqPrice' = r.price /\ gqP' = r.p /\ gqTries' = r.tries
    /\ gqAttempts' = r.attempts /\ gqSeen' = r.seen /\ gqResult' = r.result

\* the event loop: the running invocation is at an await (or has not been
\* called, or has returned) and a suspended one is resumed
Resume ==
    /\ \E k \in 1 .. Len(gqParked) :
          /\ Load(gqParked[k])
          /\ gqParked' = [gqParked EXCEPT ![k] = Locals]
    /\ UNCHANGED <<vSession, vRvol, vEnv, netCalls, vCmd, vSched, vScan, vPure>>

\* the first two symbols of the default universe
ConcUniverse == <<SNTG, RNXT>>

ConcInit ==
    /\ gqId = 1 /\ gqPc = "idle" /\ gqTicker = <<>> /\ gqRaw = <<>> /\ gqY = None
    /\ gqPrice = None /\ gqP = None /\ gqTries = 0 /\ gqAttempts = 0
    /\ gqSeen = NothingSeen /\ gqResult = None
    /\ gqParked = <<IdleLocals(2)>>
    /\ netCalls = {}
    /\ scanPc = "idle" /\ scanKind = "lowcap" /\ scanList = ConcUniverse
    /\ scanN = 0 /\ scanIdx = 0 /\ scanOut = <<>> /\ scanSeen = <<>>
    /\ scanResult = <<>>

----------------------------------------------------------------------------
(* Specification SpecFilter: the filters of scanLowcapsTopN applied to one *)
(* quote, at a wall-clock minute of a trading day                          *)

\* src/unnamed/part_000 207-221: the row pushed for the value q of
\* getQuote(t).catch(() => null); None on `continue`
lowcapRow_part000(q) ==
    IF IsNone(q) \/ ~Val(q).ok THEN None
    ELSE IF ~(Val(q).price >= LOWCAP_MIN_PRICE /\ Val(q).price <= LOWCAP_MAX_PRICE)
    THEN None
    ELSE IF Val(q).vol < LOWCAP_MIN_VOL THEN None
    ELSE Some([t |-> Val(q).ticker, price |-> Val(q).price, chg |-> Val(q).chg,
               vol |-> Val(q).vol])

FilterRevisions == {"index.js", "part_000"}

\* 0.30, 0.50, 2.50, 7.00 and 7.01 USD; 199_000, 200_000 and 300_000 shares;
\* averages of 0, 150_000 and 200_000 shares
FilterPriceSamples == {60, 100, 500, 1400, 1402}
FilterVolSamples == {199, 200, 300}
FilterAvgSamples == {0, 150, 200}

\* what yahooQuoteFull(t) returns (index.js) and what getQuote(t) resolves
\* to or fails with (part_000)
FilterQuotes(rev) ==
    IF rev = "index.js"
    THEN {Val(yahooFromQuote(Some([GoodQuote EXCEPT
                 !.regularMarketPrice = Some(p), !.regularMarketVolume = v,
                 !.averageDailyVolume3Month = a, !.averageVolume = b]))) :
             p \in FilterPriceSamples, v \in Opt(FilterVolSamples),
             a \in Opt(FilterAvgSamples), b \in Opt({100})}
    ELSE {None, Some([ok |-> FALSE])} \cup
         {Some([ok |-> TRUE, ticker |-> SNTG, price |-> p, chg |-> Pct(2), vol |-> v]) :
             p \in FilterPriceSamples, v \in FilterVolSamples \cup {0}}

\* 09:40, 12:45 and 16:40 New York time on a Wednesday
FilterClocks == {RTH_OPEN + 10, RTH_OPEN + 195, RTH_CLOSE + 40}

FilterIdle ==
    /\ flRev = "index.js" /\ flPc = "idle" /\ flQuote = None /\ flRow = None

PureIdle == NormIdle /\ ScoreIdle /\ FilterIdle

FilterInit ==
    /\ dow = 3 /\ mins \in FilterClocks /\ session = "none"
    /\ flRev \in FilterRevisions /\ flPc = "quote"
    /\ flQuote \in FilterQuotes(flRev) /\ flRow = None

\* the body of the for loop after the quote arrived: continue or out.push
FilterQuote ==
    /\ flPc = "quote"
    /\ flRow' = IF flRev = "index.js" THEN lowcapRow(SNTG, 1, flQuote)
                ELSE lowcapRow_part000(flQuote)
    /\ flPc' = "row"
    /\ UNCHANGED <<flRev, flQuote, vSession, vRvol, vEnv, vConc, vQuote, vCmd,
                   vSched, vScan, vNorm, vScore>>

----------------------------------------------------------------------------
InitSession ==
    /\ SessionInit /\ RvolIdle /\ EnvIdle /\ QuoteIdle /\ CmdIdle /\ SchedIdle /\ ScanIdle
    /\ PureIdle
NextSession == CallGetSession \/ ClockTick
SpecSession == InitSession /\ [][NextSession]_vars

InitRvol ==
    /\ SessionIdle /\ RvolInit /\ EnvIdle /\ QuoteIdle /\ CmdIdle /\ SchedIdle /\ ScanIdle
    /\ PureIdle
NextRvol == Estimate \/ EstimateMoreVolume \/ EstimateLater
SpecRvol == InitRvol /\ [][NextRvol]_vars

InitQuote ==
    /\ QuoteEnvInit /\ RvolIdle /\ QuoteIdle /\ CmdIdle /\ SchedIdle /\ ScanIdle
    /\ PureIdle
NextQuote ==
    \/ CallGetQuote
    \/ YahooQuoteResponds
    \/ YahooSummaryResponds
    \/ PolyNbboResponds
    \/ PolyPrevResponds
SpecQuote == InitQuote /\ [][NextQuote]_vars

InitCommands ==
    /\ CommandsEnvInit /\ RvolIdle /\ QuoteIdle /\ CmdIdle /\ SchedIdle /\ ScanIdle
    /\ PureIdle
NextCommands ==
    \/ CmdAlert
    \/ CmdDeep
    \/ CmdScalp
    \/ CmdScheduleAdd
    \/ CmdScheduleRemove
    \/ JobTick
    \/ NextTicker
    \/ QuoteSettled
    \/ YahooQuoteResponds
    \/ YahooSummaryResponds
    \/ PolyNbboResponds
    \/ PolyPrevResponds
SpecCommands == InitCommands /\ [][NextCommands]_vars

\* the schedule commands, the cron ticks and restarts of the process, with
\* quotes from Yahoo alone
InitScheduler ==
    /\ SchedulerEnvInit /\ RvolIdle /\ QuoteIdle /\ CmdIdle /\ SchedInit /\ ScanIdle
    /\ PureIdle
NextScheduler ==
    \/ CmdScheduleAdd
    \/ CmdScheduleRemove
    \/ Restart
    \/ JobTick
    \/ NextTicker
    \/ QuoteSettled
    \/ YahooQuoteResponds
    \/ YahooSummaryResponds
SpecScheduler == InitScheduler /\ [][NextScheduler]_vars

\* the deferred chat commands of both revisions; the commands that await
\* getQuote are those of index.js.  Fairness: the event loop runs every
\* continuation whose awaited promise has settled, and every provider
\* request and every post settles; nothing obliges a user to send a command
InitReplies ==
    /\ CommandsEnvInit /\ RvolIdle /\ QuoteIdle /\ RepliesInit /\ SchedIdle /\ ScanIdle
    /\ PureIdle
NextReplies ==
    \/ (cmdRev = "index.js" /\ CmdAlert)
    \/ (cmdRev = "index.js" /\ CmdDeep)
    \/ (cmdRev = "index.js" /\ CmdScalp)
    \/ CmdScanLowcap
    \/ PostSettled
    \/ NextTicker
    \/ QuoteSettled
    \/ YahooQuoteResponds
    \/ YahooSummaryResponds
    \/ PolyNbboResponds
    \/ PolyPrevResponds
SpecReplies ==
    /\ InitReplies /\ [][NextReplies]_vars
    /\ WF_vars(PostSettled)
    /\ WF_vars(NextTicker)
    /\ WF_vars(QuoteSettled)
    /\ WF_vars(YahooQuoteResponds)
    /\ WF_vars(YahooSummaryResponds)
    /\ WF_vars(PolyNbboResponds)
    /\ WF_vars(PolyPrevResponds)

InitScan ==
    /\ SessionIdle /\ RvolIdle /\ ScanEnvInit /\ QuoteIdle /\ CmdIdle /\ SchedIdle
    /\ ScanInit /\ PureIdle
NextScan == ScanStart \/ ScanSymbol
SpecScan == InitScan /\ [][NextScan]_vars

InitNorm ==
    /\ SessionIdle /\ RvolIdle /\ EnvIdle /\ QuoteIdle /\ CmdIdle /\ SchedIdle
    /\ ScanIdle /\ NormInit /\ ScoreIdle /\ FilterIdle
NextNorm == ApplyNorm \/ ApplyNormAgain
SpecNorm == InitNorm /\ [][NextNorm]_vars

InitScore ==
    /\ SessionIdle /\ RvolIdle /\ EnvIdle /\ QuoteIdle /\ CmdIdle /\ SchedIdle
    /\ ScanIdle /\ NormIdle /\ ScoreInit /\ FilterIdle
NextScore ==
    \/ ScoreRow
    \/ ScoreAgain
    \/ ScoreMoreRvol
    \/ ScoreMoreVolume
    \/ ScoreMoreChange
SpecScore == InitScore /\ [][NextScore]_vars

InitFilter ==
    /\ RvolIdle /\ EnvIdle /\ QuoteIdle /\ CmdIdle /\ SchedIdle /\ ScanIdle
    /\ NormIdle /\ ScoreIdle /\ FilterInit
NextFilter == FilterQuote
SpecFilter == InitFilter /\ [][NextFilter]_vars

InitConcurrent ==
    /\ CommandsEnvInit /\ RvolIdle /\ CmdIdle /\ SchedIdle /\ PureIdle
    /\ ConcInit
NextConcurrent ==
    \/ CallGetQuote
    \/ YahooQuoteResponds
    \/ YahooSummaryResponds
    \/ PolyNbboResponds
    \/ PolyPrevResponds
    \/ Resume
    \/ ScanStart
    \/ ScanSymbol
SpecConcurrent == InitConcurrent /\ [][NextConcurrent]_vars

----------------------------------------------------------------------------
(* C4: getSession is total over the 7 x 1440 clock readings: it returns    *)
(* exactly one of PRE, RTH, POST, OFF; weekends are OFF; on weekdays       *)
(* minutes 240..569 are PRE, 570..959 RTH, 960..1199 POST and all other    *)
(* minutes OFF, so each boundary minute belongs to the window it starts.   *)
C4_SessionTotal ==
    session # "none" =>
        /\ session \in {"PRE", "RTH", "POST", "OFF"}
        /\ (dow \in {0, 6} => session = "OFF")
        /\ (dow \in 1 .. 5 =>
              /\ (session = "PRE" <=> mins \in 240 .. 569)
              /\ (session = "RTH" <=> mins \in 570 .. 959)
              /\ (session = "POST" <=> mins \in 960 .. 1199)
              /\ (session = "OFF" <=> mins \in (0 .. 239) \cup (1200 .. 1439)))

C4_Witness == dow = 3 /\ mins = 570 /\ session = "RTH"

----------------------------------------------------------------------------
(* C7: for a fixed positive average volume and session RTH, the estimate   *)
(* never decreases when the current volume grows (same minute) and never   *)
(* increases when the minutes since the open grow (same volume), over the  *)
(* whole session including the clamped first 5% of it.                     *)
C7_RvolMonotone ==
    [][ (rvSession = "RTH" /\ rvOp # "input" /\ rawAvg(rvRaw) > 0) =>
            /\ ~IsNone(rvol) /\ ~IsNone(rvol')
            /\ (rvOp' = "volume" => RatLeq(rvol, rvol'))
            /\ (rvOp' = "later" => RatLeq(rvol', rvol)) ]_vars

C7_Witness ==
    /\ rvOp = "later" /\ rvSession = "RTH" /\ rawAvg(rvRaw) > 0 /\ rawVol(rvRaw) > 0
    /\ rvNow = RTH_OPEN + 10
    /\ ~IsNone(rvol)

(* C8: the estimate is the explicit unknown value (null), never 0 and      *)
(* never 1, whenever the average daily volume (the first of                *)
(* averageDailyVolume3Month, averageVolume that is present) is missing,    *)
(* zero or negative, in every session and for every volume; and it is a    *)
(* number whenever that average is positive.                               *)
C8_UnknownAverage ==
    rvOp # "input" =>
        LET a == IF IsNone(rvRaw) THEN None
                 ELSE IF ~IsNone(Val(rvRaw).averageDailyVolume3Month)
                      THEN Val(rvRaw).averageDailyVolume3Month
                      ELSE Val(rvRaw).averageVolume
        IN  IF IsNone(a) \/ Val(a) <= 0
            THEN rvol = None /\ rvol # <<0, 1>> /\ rvol # <<1, 1>>
            ELSE ~IsNone(rvol) /\ Len(rvol) = 2 /\ rvol[2] > 0

C8_Witness ==
    /\ rvOp = "estimate" /\ rvSession = "RTH" /\ ~IsNone(rvRaw)
    /\ Val(rvRaw).averageDailyVolume3Month = Some(0)
    /\ Val(rvRaw).regularMarketVolume = Some(300)
    /\ rvol = None

(* C9: with a positive average volume the estimate equals                  *)
(* volume / (average * clamp(minutesSinceOpen / 390, 0.05, 1)) in session  *)
(* RTH and volume / average in every other session; average 1,000,000,     *)
(* 45 minutes into RTH and volume 200,000 give an expected volume so far   *)
(* of about 115,385 and a relative volume of about 1.73.                   *)
C9_RvolFormula ==
    (rvOp # "input" /\ rawAvg(rvRaw) > 0) =>
        LET vol == rawVol(rvRaw)
            avg == rawAvg(rvRaw)
            m   == IF rvNow > 570 THEN rvNow - 570 ELSE 0
            \* clamp(m / 390, 0.05, 1) = c / 780
            c   == IF 20 * m < 390 THEN 39 ELSE IF m > 390 THEN 780 ELSE 2 * m
        IN  /\ ~IsNone(rvol)
            /\ IF rvSession = "RTH"
               THEN rvol[1] * (avg * c) = (vol * 780) * rvol[2]
               ELSE rvol[1] * avg = vol * rvol[2]
            /\ (rvSession = "RTH" /\ vol = 200 /\ avg = 1000 /\ m = 45) =>
                  /\ (avg * 1000 * c) \div 780 = 115384
                  /\ (rvol[1] * 100) \div rvol[2] = 173

C9_Witness ==
    /\ rvOp = "estimate" /\ rvSession = "RTH" /\ rvNow = 615
    /\ rawVol(rvRaw) = 200 /\ rawAvg(rvRaw) = 1000
    /\ rvol = <<26, 15>>

----------------------------------------------------------------------------
(* C1: whatever the two providers do, getQuote ends by returning a quote   *)
(* and no exception reaches the caller: when Polygon gave no price and     *)
(* Yahoo succeeded the quote carries Yahoo's price and a source naming     *)
(* Yahoo, and when Yahoo failed as well the quote is in the explicit       *)
(* failure state (no price).                                               *)
C1_FallbackNoThrow ==
    gqPc = "done" =>
        /\ gqResult.kind = "returned"
        /\ (IsNone(gqP) /\ ~IsNone(gqY)) =>
              /\ gqResult.value.price = Val(gqY).price
              /\ gqResult.value.source \in {"Yahoo", "Yahoo (fallback)"}

(* C2: when Polygon returned a price and Yahoo a positive one, the flag is *)
(* non-empty exactly if |polygon - yahoo| / yahoo exceeds DISC_BPS basis   *)
(* points; flagged or not, the returned price is Polygon's, the source is  *)
(* Polygon and the Yahoo price is carried by alt; Polygon 10.00 against    *)
(* Yahoo 10.20 at 50 basis points is flagged and priced 10.00.             *)
C2_DiscrepancyFlag ==
    (/\ gqPc = "done" /\ gqResult.kind = "returned" /\ ~IsNone(gqP)
     /\ ~IsNone(Val(gqY).price) /\ Val(Val(gqY).price) > 0) =>
        LET v == gqResult.value
            p == Val(gqP).price
            s == Val(Val(gqY).price)
        IN  /\ (v.flag # "" <=> Abs(p - s) * 10000 > DISC_BPS * s)
            /\ v.price = Some(p)
            /\ v.source = "Polygon"
            /\ v.alt = Some(Some(s))
            /\ (p = 2000 /\ s = 2040 /\ DISC_BPS = 50) =>
                  (v.flag # "" /\ v.price = Some(2000))

C2_Witness ==
    /\ gqPc = "done" /\ gqResult.kind = "returned" /\ DISC_BPS = 50
    /\ ~IsNone(gqP) /\ Val(gqP).price = 2000
    /\ Val(gqY).price = Some(2040)
    /\ gqResult.value.flag # "" /\ gqResult.value.price = Some(2000)

(* C10: a quote that getQuote returns in a success state carries a price   *)
(* that is a number and strictly positive, whichever endpoint it came      *)
(* from.                                                                   *)
C10_PositivePrice ==
    (gqPc = "done" /\ gqResult.kind = "returned") =>
        /\ ~IsNone(gqResult.value.price)
        /\ Val(gqResult.value.price) > 0

(* C11: when the previous-close response carries a close of zero, or no    *)
(* close at all, the quote built from the Polygon price has a change of    *)
(* exactly 0: a finite number, never Infinity or NaN.                      *)
C11_ZeroPrevClose ==
    (/\ gqPc = "done" /\ gqResult.kind = "returned" /\ ~IsNone(gqP)
     /\ ~IsNone(gqSeen.prev) /\ Val(gqSeen.prev).ok
     /\ LET prev == Val(gqSeen.prev).body
        IN  \/ IsNone(prev)
            \/ IsNone(Val(prev).c)
            \/ Val(Val(prev).c) = 0) =>
        /\ IsFinite(gqResult.value.chg)
        /\ gqResult.value.chg = Pct(0)

(* C12: neither adapter lets an exception cross its boundary: whatever the *)
(* upstream answers, yahooQuoteFull hands getQuote a value, and            *)
(* polygonQuote, once it has made a request, hands back a quote or a       *)
(* failure value (never the bare null).                                    *)
C12_AdaptersReturnValues ==
    gqPc = "done" =>
        /\ ~IsNone(gqY)
        /\ ~IsNone(gqSeen.nbbo) => ~IsNone(gqP)

(* C13: when the NBBO request gave a price and the previous-close request  *)
(* fails on every attempt, the quote still carries the Polygon price, with *)
(* a change of 0.                                                          *)
C13_PriceSurvivesPrevFailure ==
    (/\ gqPc = "done" /\ ~IsNone(gqPrice)
     /\ ~IsNone(gqSeen.prev) /\ ~Val(gqSeen.prev).ok) =>
        /\ gqResult.kind = "returned"
        /\ gqResult.value.price = gqPrice
        /\ gqResult.value.source = "Polygon"
        /\ gqResult.value.chg = Pct(0)

\* what getQuote gives on the Yahoo responses it saw when Polygon adds nothing
C14_YahooAlone ==
    LET rq == Val(gqSeen.quote)
        rs == IF IsNone(gqSeen.summary) THEN Rejected ELSE Val(gqSeen.summary)
        y  == yahooQuoteFull(rq, rs)
    IN  IF ~IsNone(y) THEN Returned(QuoteOf(Val(y), None))
        ELSE IF ~rs.ok THEN Threw("quoteSummary rejected")
        ELSE Threw("No price on quoteSummary")

(* C14: without a Polygon key no Polygon request is made, and the outcome  *)
(* of getQuote is the one the Yahoo responses alone determine; with a key  *)
(* and the Polygon requests failing (rejected on every attempt) the        *)
(* outcome is that same one, so the two configurations agree on every      *)
(* symbol and every Yahoo outcome.                                         *)
C14_NoKeyAsAllFailing ==
    /\ ~POLY => \A c \in netCalls : c.api \notin {"poly.nbbo", "poly.prev"}
    /\ (/\ gqPc = "done"
        /\ \/ ~POLY
           \/ IsNone(gqSeen.nbbo)
           \/ ~Val(gqSeen.nbbo).ok
           \/ (~IsNone(gqSeen.prev) /\ ~Val(gqSeen.prev).ok)) =>
          gqResult = C14_YahooAlone

C14_Witness ==
    /\ gqPc = "done" /\ POLY /\ gqAttempts = RETRY_TRIES + 1
    /\ gqSeen.nbbo = Some(Rejected)
    /\ gqResult.kind = "returned" /\ gqResult.value.source = "Yahoo"
    /\ gqResult.value.price = Some(2040)

(* C16: a Polygon request is made only for a quote whose type is EQUITY or *)
(* ETF; for every other type no Polygon request is made and getQuote       *)
(* returns the Yahoo quote as it is (its price, change, type and source),  *)
(* with an empty flag and no alt price.                                    *)
C16_PolygonOnlyForEquityEtf ==
    /\ (\E c \in netCalls : c.api \in {"poly.nbbo", "poly.prev"}) =>
          (~IsNone(gqY) /\ Val(gqY).type \in {"EQUITY", "ETF"})
    /\ (/\ gqPc = "done" /\ gqResult.kind = "returned"
        /\ Val(gqY).type \notin {"EQUITY", "ETF"}) =>
          LET v == gqResult.value
              y == Val(gqY)
          IN  /\ \A c \in netCalls : c.api \notin {"poly.nbbo", "poly.prev"}
              /\ v.price = y.price /\ v.chg = y.chg /\ v.type = y.type
              /\ v.source = y.source /\ v.raw = y.raw
              /\ v.flag = "" /\ v.alt = None

C16_Witness ==
    /\ gqPc = "done" /\ POLY /\ gqResult.kind = "returned"
    /\ Val(gqY).type = "CRYPTOCURRENCY"
    /\ gqResult.value.price = Some(2040) /\ gqResult.value.flag = ""
    /\ \A c \in netCalls : c.api \notin {"poly.nbbo", "poly.prev"}

(* C15: one logical provider call makes a bounded number of attempts, at   *)
(* most two (the first and one retry), before it returns the response or   *)
(* propagates the failure.                                                 *)
C15_AtMostTwoAttempts ==
    gqAttempts <= 2

(* C22: when Polygon supplies the price, the quote getQuote returns still  *)
(* carries the instrument type and the raw Yahoo payload (volume, average  *)
(* volume) of the quote it returns when Polygon does not answer, so the    *)
(* RVOL estimated from it is the same in both cases.                       *)
C22_AuxiliaryFieldsFromYahoo ==
    (gqPc = "done" /\ gqResult.kind = "returned" /\ ~IsNone(gqP)) =>
        LET v == gqResult.value
            a == C14_YahooAlone.value
        IN  /\ v.source = "Polygon" /\ v.price = Some(Val(gqP).price)
            /\ v.type = a.type
            /\ v.raw = a.raw
            /\ estimateRVOLFromQuote(v.raw, v.session, mins) =
                   estimateRVOLFromQuote(a.raw, a.session, mins)

C22_Witness ==
    /\ gqPc = "done" /\ gqResult.kind = "returned" /\ ~IsNone(gqP)
    /\ gqResult.value.source = "Polygon" /\ gqResult.value.type = "ETF"
    /\ gqResult.value.session = "RTH"
    /\ ~IsNone(estimateRVOLFromQuote(gqResult.value.raw, gqResult.value.session, mins))

(* C3: every provider request started while serving an entry point       *)
(* (/alert, /deep, /scalp, /schedule_add, a scheduled tick) is made for a  *)
(* symbol that passes the isTicker format check: a symbol that fails it    *)
(* never causes a network call.                                            *)
C3_NoCallForInvalidSymbol ==
    \A c \in netCalls : isTicker(Some(c.raw)) /\ isTicker(Some(c.symbol))

----------------------------------------------------------------------------
(* C5: the list a scan returns is ordered by descending score (for the     *)
(* low-cap scan 2 * rvol + chg; for the gapper scan the change, then the   *)
(* volume); candidates of equal score keep the order of their symbols in   *)
(* the universe; it holds the best candidates and its length is exactly    *)
(* min(n, number of universe symbols that passed all filters); a universe  *)
(* of 5 symbols of which 2 fail and 3 pass with scores 3.1, 5.0 and 2.0    *)
(* gives, for n = 2, the scores 5.0 then 3.1.                              *)
C5_ScanOrder ==
    scanPc = "done" =>
        LET r == scanResult
            vol(k) == scanVol(Val(scanSeen[k]))
            avg(k) == scanAvg(Val(scanSeen[k]))
            price(k) == Val(scanSeen[k]).price
            chg(k) == Val(scanSeen[k]).chg
            Passing ==
                {k \in 1 .. Len(scanList) :
                    /\ ~IsNone(scanSeen[k]) /\ ~IsNone(price(k))
                    /\ Val(price(k)) >= 100
                    /\ IF scanKind = "lowcap"
                       THEN /\ Val(price(k)) <= 1400
                            /\ vol(k) >= 200 /\ avg(k) > 0
                            /\ 2 * vol(k) >= 3 * avg(k)
                       ELSE Val(price(k)) <= 4000 /\ vol(k) >= 300}
            score(k) ==
                IF scanKind = "lowcap"
                THEN RatAdd(Rat(2 * vol(k), avg(k)), chg(k))
                ELSE chg(k)
            \* the score of k is at least that of j
            AtLeast(k, j) ==
                IF scanKind = "lowcap" THEN RatLeq(score(j), score(k))
                ELSE RatLt(score(j), score(k))
                         \/ (score(j) = score(k) /\ vol(j) <= vol(k))
            Same(k, j) == AtLeast(k, j) /\ AtLeast(j, k)
        IN  /\ Len(r) = Min(scanN, Cardinality(Passing))
            /\ \A i \in 1 .. Len(r) : r[i].k \in Passing
            /\ \A i, j \in 1 .. Len(r) :
                  i < j => /\ AtLeast(r[i].k, r[j].k)
                           /\ r[i].k # r[j].k
                           /\ (Same(r[i].k, r[j].k) => r[i].k < r[j].k)
            /\ \A k \in Passing, i \in 1 .. Len(r) :
                  (\A j \in 1 .. Len(r) : r[j].k # k) =>
                        /\ AtLeast(r[i].k, k)
                        /\ (Same(r[i].k, k) => r[i].k < k)
            /\ (/\ scanKind = "lowcap" /\ scanN = 2 /\ Len(scanList) = 5
                /\ Cardinality({k \in 1 .. 5 : IsNone(scanSeen[k])}) = 2
                /\ \E a, b, c \in Passing :
                      /\ a < b /\ b < c /\ Passing = {a, b, c}
                      /\ score(a) = <<31, 10>> /\ score(b) = <<5, 1>>
                      /\ score(c) = <<2, 1>>) =>
                  /\ Len(r) = 2
                  /\ r[1].score = <<5, 1>> /\ r[2].score = <<31, 10>>

C5_Witness ==
    /\ scanPc = "done" /\ scanKind = "lowcap" /\ scanN = 2 /\ Len(scanList) = 5
    /\ IsNone(scanSeen[1]) /\ IsNone(scanSeen[4])
    /\ Len(scanResult) = 2
    /\ scanResult[1].k = 3 /\ scanResult[1].score = <<5, 1>>
    /\ scanResult[2].k = 2 /\ scanResult[2].score = <<31, 10>>
    /\ ~IsNone(scanSeen[5])

(* C6: a scan always returns: every symbol of the universe is fetched, a   *)
(* symbol whose quote fetch fails is left out and the others are still     *)
(* ranked, so that the list returned over the universe is the list a scan  *)
(* returns over the symbols whose quote succeeded; a universe where every  *)
(* symbol fails, or an empty one, gives the empty list.                    *)
C6_FailuresExcluded ==
    scanPc = "done" =>
        LET Ok == {k \in 1 .. Len(scanList) : ~IsNone(scanSeen[k])}
            \* rows of the symbols of Ok among the first m
            RowsUpTo[m \in 0 .. Len(scanList)] ==
                IF m = 0 THEN <<>>
                ELSE IF m \in Ok
                     THEN rowsAfter(scanKind, RowsUpTo[m - 1], scanList[m], m, scanSeen[m])
                     ELSE RowsUpTo[m - 1]
        IN  /\ Len(scanSeen) = Len(scanList)
            /\ scanResult = scanFinish(scanKind, RowsUpTo[Len(scanList)], scanN)
            /\ (Ok = {} => scanResult = <<>>)

C6_Witness ==
    /\ scanPc = "done" /\ scanKind = "lowcap" /\ Len(scanList) = 5
    /\ IsNone(scanSeen[1]) /\ IsNone(scanSeen[2])
    /\ Len(scanResult) = 2 /\ scanResult[1].k = 5 /\ scanResult[2].k = 3

----------------------------------------------------------------------------
(* C23: the list a scan iterates names no symbol twice, so that no symbol  *)
(* is fetched twice in one scan and no symbol appears more than once in    *)
(* the list the scan returns.                                              *)
C23_UniverseDeduplicated ==
    scanPc = "done" =>
        /\ \A i, j \in 1 .. Len(scanList) :
              i # j => norm(Some(scanList[i])) # norm(Some(scanList[j]))
        /\ \A i, j \in 1 .. Len(scanResult) :
              i # j => scanResult[i].t # scanResult[j].t

(* C17: for every string that passes the revision's isTicker check, norm   *)
(* applied to norm(s) gives norm(s) again; so for brk.b / BRK.A and for    *)
(* symbols with the -USD suffix.                                           *)
C17_NormIdempotent ==
    (nmPc = "twice" /\ isTickerOf(nmRev, Some(nmIn))) => nmTwice = nmOnce

C17_Witness ==
    /\ nmPc = "twice" /\ nmRev = "index.js"
    /\ nmIn = <<" ", "b", "r", "k", ".", "b", " ">>
    /\ isTicker(Some(nmIn))
    /\ nmOnce = BRK_B_DASH /\ nmTwice = BRK_B_DASH

(* C18: in every revision norm("brk.b") is "BRK-B".                        *)
C18_ClassShareHyphen ==
    (nmPc = "once" /\ nmIn = <<"b", "r", "k", ".", "b">>) => nmOnce = BRK_B_DASH

(* C19: the score of a row that passed the filters is defined (a finite    *)
(* number), is the same whenever the same row is scored again, and is not  *)
(* lower for a row that differs only by a higher rvol, a higher volume or  *)
(* a higher percent change; for 2 * rvol + chg and for                     *)
(* chg + log10(max(1, vol)).                                               *)
C19_ScoreMonotone ==
    [][ scOp' \notin {"idle", "input", "score"} =>
            /\ IsFinite(scScore'.lin) /\ scScore'.arg >= 1
            /\ (scOp' = "again" => scScore' = scScore)
            /\ (scOp' \in {"rvol", "vol", "chg"} => ScoreLeq(scScore, scScore')) ]_vars

C19_Witness ==
    /\ scOp = "rvol" /\ scRev = "index.js"
    /\ scCand.rvol = Rat(31, 10) /\ scCand.chg = Rat(5, 2)
    /\ scScore = [lin |-> Rat(87, 10), arg |-> 1]

(* C20: with two getQuote invocations and a scan interleaved at their      *)
(* awaits, each invocation that has finished returned what it returns when *)
(* run by itself on the provider responses it received, and no step of one *)
(* invocation changes the locals of another.                               *)
C20_InvocationsIsolated ==
    /\ [](/\ gqPc = "done" => gqResult = getQuoteOn(gqSeen)
          /\ \A k \in 1 .. Len(gqParked) :
                gqParked[k].pc = "done" =>
                    gqParked[k].result = getQuoteOn(gqParked[k].seen)
          /\ scanPc = "done" =>
                scanResult = scanOn(scanKind, scanList, scanSeen, scanN))
    /\ [][ /\ gqId' = gqId => gqParked' = gqParked
           /\ gqId' # gqId =>
                 /\ \E k \in 1 .. Len(gqParked) :
                       Locals' = gqParked[k] /\ gqParked'[k] = Locals
                 /\ UNCHANGED vScan
           /\ vScan' # vScan => UNCHANGED vCall ]_vars

C20_Witness ==
    /\ gqPc = "done" /\ gqResult.kind = "returned" /\ gqResult.value.source = "Polygon"
    /\ Len(gqParked) = 1 /\ gqParked[1].pc = "done"
    /\ gqParked[1].result.kind = "threw"
    /\ scanPc = "done" /\ Len(scanResult) = 1

----------------------------------------------------------------------------
(* C21: every row the low-cap scan pushes has a price within [0.5, 7], a   *)
(* volume of at least 200,000, a known positive average volume and a       *)
(* relative volume of at least 1.5: a quote whose relative volume is       *)
(* unknown is never admitted.                                              *)
C21_CandidatesPassFilters ==
    (flPc = "row" /\ ~IsNone(flRow)) =>
        LET x == Val(flRow)
        IN  /\ x.price >= LOWCAP_MIN_PRICE /\ x.price <= LOWCAP_MAX_PRICE
            /\ x.vol >= LOWCAP_MIN_VOL
            /\ "rvol" \in DOMAIN x
            /\ RatLeq(Rat(3, 2), x.rvol)
            /\ flRev = "index.js" => scanAvg(flQuote) > 0

(* C24: the relative volume on a row the low-cap scan pushes is the value  *)
(* estimateRVOLFromQuote gives for the same quote at the same minute:      *)
(* during RTH the volume over the average scaled by the elapsed fraction   *)
(* of the session, outside RTH the volume over the average.                *)
C24_ScanRvolIsEstimate ==
    (flPc = "row" /\ flRev = "index.js" /\ ~IsNone(flRow)) =>
        Some(Val(flRow).rvol) =
            estimateRVOLFromQuote(flQuote.raw, getSession(dow, mins), mins)

----------------------------------------------------------------------------
(* Scheduler and chat commands                                             *)

\* the symbols of a list are pairwise distinct
Distinct(l) == \A i, j \in 1 .. Len(l) : l[i] = l[j] => i = j

\* the tickers of a schedule entry are well formed
WellFormedTickers(ts) ==
    /\ Len(ts) \in 1 .. MAX_TICKERS
    /\ Distinct(ts)
    /\ \A i \in 1 .. Len(ts) : norm(Some(ts[i])) = ts[i] /\ isTicker(Some(ts[i]))

\* the symbols an entry point has asked a quote for, and those it still will
QuotedSymbols == {c.raw : c \in {d \in netCalls : d.api = "yahoo.quote"}}
QueuedSymbols == {cmdQueue[i].raw : i \in 1 .. Len(cmdQueue)}

\* the text of the running /alert has no word that passes isTicker
AlertWithoutTicker ==
    /\ cmdName = "alert" /\ ~IsNone(cmdOpts)
    /\ SelectSeq(words(safeStr(Some(OrDefault(Val(cmdOpts).text, NVDA)))),
                 LAMBDA w : isTicker(Some(w))) = <<>>

\* C25: every schedule entry (in memory and in the file) holds 1 to 4 tickers,
\* pairwise distinct, each equal to its norm and passing isTicker; an alert
\* or a scheduled tick asks quotes for at most 4 symbols; and an /alert whose
\* text has no valid ticker asks for the default symbol NVDA alone
C25_TickerListsBounded ==
    /\ \A k \in 1 .. Len(SCHEDULES) : WellFormedTickers(SCHEDULES[k].tickers)
    /\ ~IsNone(schedulesFile) =>
          \A k \in 1 .. Len(Val(schedulesFile)) :
              WellFormedTickers(Val(schedulesFile)[k].tickers)
    /\ \A job \in started : WellFormedTickers(job.tickers)
    /\ cmdName \in {"alert", "tick"} =>
          /\ Len(cmdQueue) <= MAX_TICKERS
          /\ Cardinality(QuotedSymbols \cup QueuedSymbols) <= MAX_TICKERS
    /\ AlertWithoutTicker =>
          QuotedSymbols \cup QueuedSymbols = {NVDA}

\* a schedule of four tickers was added from a text of five, and an /alert
\* without a valid ticker has asked the quote of NVDA
C25_Witness ==
    /\ \E k \in 1 .. Len(SCHEDULES) :
          SCHEDULES[k].tickers = << <<"A">>, <<"B">>, <<"C">>, <<"D">> >>
    /\ AlertWithoutTicker
    /\ QuotedSymbols = {NVDA}

\* the step handles a schedule command of the given name
ScheduleStep(name) == ~IsNone(cmdOpts') /\ Val(cmdOpts').name = name

\* a /schedule_add that the handler must reject: cron.validate refuses the
\* expression, or no word of the tickers option passes isTicker once
\* normalized
RejectedAdd(opts) ==
    \/ opts.cron = "every day"
    \/ \A w \in Range(words(safeStr(opts.tickers))) : ~isTicker(Some(norm(Some(w))))

\* C29: a rejected /schedule_add leaves SCHEDULES, NEXT_ID, JOBS, the
\* schedules file and the running cron jobs as they were, and the caller
\* gets the error reply
C29_RejectedAddChangesNothing ==
    [][(ScheduleStep("schedule_add") /\ RejectedAdd(Val(cmdOpts')))
          => /\ UNCHANGED <<SCHEDULES, NEXT_ID, JOBS, schedulesFile, started>>
             /\ cmdReply' = "refused"]_vars

\* an add with a valid expression and no valid ticker was refused while a
\* schedule existed
C29_Witness ==
    /\ ~IsNone(cmdOpts) /\ Val(cmdOpts).name = "schedule_add"
    /\ Val(cmdOpts).cron = CRON_9AM
    /\ RejectedAdd(Val(cmdOpts))
    /\ cmdReply = "refused"
    /\ SCHEDULES # <<>> /\ NEXT_ID > 1

\* the positions of the schedules with the given id
Holding(id) == {k \in 1 .. Len(SCHEDULES) : SCHEDULES[k].id = id}

\* list without its element k
Without(list, k) ==
    [i \in 1 .. Len(list) - 1 |-> IF i < k THEN list[i] ELSE list[i + 1]]

\* C26: /schedule_remove of an id that a schedule holds removes exactly that
\* entry from SCHEDULES and from the file, drops its key from JOBS and stops
\* its cron job, keeps every other entry, key and running job, so that no
\* job of that id is left to tick, and replies; of an id that no schedule
\* holds, it leaves SCHEDULES, JOBS, the running jobs and the file alone and
\* replies not found
C26_RemoveExactlyOne ==
    [][ScheduleStep("schedule_remove") =>
          LET id == Val(cmdOpts').id
          IN  IF Holding(id) # {}
              THEN /\ \E k \in Holding(id) : SCHEDULES' = Without(SCHEDULES, k)
                   /\ Len(SCHEDULES') = Len(SCHEDULES) - 1
                   /\ schedulesFile' = Some(SCHEDULES')
                   /\ DOMAIN JOBS' = DOMAIN JOBS \ {id}
                   /\ \A j \in DOMAIN JOBS' : JOBS'[j] = JOBS[j]
                   /\ started' = {job \in started : job.id # id}
                   /\ cmdReply' = "replied"
              ELSE /\ UNCHANGED <<SCHEDULES, JOBS, started, schedulesFile>>
                   /\ cmdReply' = "refused"]_vars

\* a schedule was removed while another one stays, with its job running
C26_Witness ==
    /\ ~IsNone(cmdOpts) /\ Val(cmdOpts).name = "schedule_remove"
    /\ cmdReply = "replied"
    /\ Val(cmdOpts).id \in assigned
    /\ Holding(Val(cmdOpts).id) = {}
    /\ SCHEDULES # <<>>
    /\ \A k \in 1 .. Len(SCHEDULES) : SCHEDULES[k] \in started

\* the ids of the schedules held, in order
ScheduleIds == [k \in 1 .. Len(SCHEDULES) |-> SCHEDULES[k].id]

\* C27: every /schedule_add that adds a schedule gives it an id that no
\* earlier schedule was given, across removals and restarts of the process,
\* and no two schedules held share an id
C27_IdsNeverReused ==
    /\ [][(ScheduleStep("schedule_add") /\ Len(SCHEDULES') > Len(SCHEDULES))
             => SCHEDULES'[Len(SCHEDULES')].id \notin assigned]_vars
    /\ [](Distinct(ScheduleIds))

\* the positions of the schedules whose cron expression is valid
Schedulable == {k \in 1 .. Len(SCHEDULES) : cronValidate(SCHEDULES[k].cron)}

Answered == cmdReply \in {"replied", "error"}

\* C30: a deferred chat command eventually has its final reply, and no
\* handler ends while its interaction is still deferred
C30_DeferredIsAnswered ==
    /\ (cmdReply = "deferred") ~> Answered
    /\ [](cmdName = "idle" => cmdReply # "deferred")

====
